---- MODULE Spec2Model ----
(***************************************************************************)
(* node-fleet autoscaler: the scaling decision engine                      *)
(* (src/lambda/scaling_decision.py), the DynamoDB lock of the state        *)
(* manager (src/lambda/state_manager.py), the forecaster                   *)
(* (src/lambda/predictive_scaling.py), the control loop that uses them     *)
(* (src/lambda/autoscaler.py) and the EC2 manager with its spot helper     *)
(* (src/lambda/ec2_manager.py, src/lambda/spot_instance_helper.py).        *)
(***************************************************************************)
EXTENDS Integers, Sequences, FiniteSets, TLC

\* ------------------------------------------------------------------------
\* Program constants
\* ------------------------------------------------------------------------
CPU_SCALE_UP_THRESHOLD == 70
CPU_SCALE_DOWN_THRESHOLD == 30
MEMORY_SCALE_UP_THRESHOLD == 75
MEMORY_SCALE_DOWN_THRESHOLD == 50
SCALE_UP_COOLDOWN == 300
SCALE_DOWN_COOLDOWN == 600
\* window=3 of the three scale-up checks, window=10 of the scale-down check
SCALE_UP_WINDOW == 3
SCALE_DOWN_WINDOW == 10
\* "pending_pods": 1 in the scale-down thresholds ("Must be < 1")
PENDING_SCALE_DOWN_THRESHOLD == 1
\* cpu > 85 or pending_pods > 5 adds two nodes instead of one
CPU_EXTREME == 85
PENDING_EXTREME == 5
MIN_NODES == 2
\* max_history of update_metrics_history: the longest history the record holds
MaxHistory == 10
\* current_time - 300 in the condition, lock_age > 300 in the conflict path
LOCK_STALE_SECONDS == 300
\* predict_next_hour_load: samples needed overall and in the hour's bucket
MIN_HISTORICAL_SAMPLES == 20
MIN_BUCKET_SAMPLES == 3
\* confidence, in tenths: the least that lets a recommendation fire (0.3) and
\* the value below which the prediction is inflated by 20% (0.5)
MIN_CONFIDENCE_TENTHS == 3
MARGIN_CONFIDENCE_TENTHS == 5
\* should_proactive_scale_up: threshold = 70.0
PREDICTIVE_THRESHOLD == 70
\* calculate_recommended_nodes: target_utilization = 60.0, at most 3 nodes
\* above current_nodes, never below 2
TARGET_UTILIZATION == 60
MAX_RECOMMENDED_STEP == 3
MIN_RECOMMENDED == 2
\* lambda_handler: the lead window starts at minute 50, and a forecast adds
\* at most 2 nodes
LEAD_WINDOW_MINUTE == 50
MAX_PROACTIVE_NODES == 2
\* "invoked by EventBridge every 2 minutes"
LOOP_PERIOD == 120
\* spot_instance_helper.py: target_spot_ratio = 0.70, in tenths
TARGET_SPOT_TENTHS == 7
\* ec2_manager.py: spot_percentage defaults to 70
DEFAULT_SPOT_PERCENTAGE == 70
\* ec2_manager.py: drain timeouts of _drain_node (default) and of the spot
\* interruption handler, seconds
DRAIN_TIMEOUT == 300
SPOT_DRAIN_TIMEOUT == 120
\* _wait_for_nodes_ready: timeout=300 (line 145), time.sleep(5) (line 456);
\* the drain's wait: time.sleep(10) (line 624)
READY_TIMEOUT == 300
READY_POLL_INTERVAL == 5
DRAIN_POLL_INTERVAL == 10
\* ec2_manager.py: weights of the sort key of the victim selection
STS_WEIGHT == 1000
LIFECYCLE_WEIGHT == 100

\* ------------------------------------------------------------------------
\* Bounds of the model
\* ------------------------------------------------------------------------
\* MAX_NODES is configuration (default 10); the model runs with a small fleet
MAX_NODES == 4
\* the wall clock advances in steps of TickStep seconds up to MaxTime
TickStep == 300
MaxTime == 1200
\* recursion depth of acquire_lock that the model follows
MaxRetries == 2
\* the control loop is followed from LoopStart (a Thursday, 00:48 UTC) to
\* LoopEnd (00:56 UTC), into the lead window of the hour
LoopStart == 607680
LoopEnd == 608160
\* calculate_spot_ondemand_mix is called with node counts up to MaxMixNodes
MaxMixNodes == 5
\* repeated scale-ups add up to MaxBatch nodes at a time to a fleet of up to
\* MaxConverge nodes
MaxBatch == 10
MaxConverge == 100
\* scale_up is called for up to MaxAdd nodes on a fleet of up to MaxFleet
MaxAdd == 3
MaxFleet == 7
\* the victim selection is given up to MaxInstances instances
MaxInstances == 3
\* the largest fleet a scale_down call is made on
MaxWorkers == 3
\* the number of update_metrics_history calls that are followed
MaxAppends == 12
\* the longest a call to the orchestration API takes in a polling loop, seconds
MaxCallTime == 1
\* the workers a subnet holds before a scale_up, and the instances of each
\* lifecycle a scale_up launches
MaxPerSubnet == 2
MaxLaunch == 2

VARIABLES
    now,            \* wall clock, unix seconds
    item,           \* the cluster's record in the state table (lock attributes)
    pc,             \* per invocation: the next operation of lambda_handler
    current_time,   \* per invocation: current_time of its running acquire_lock
    retries,        \* per invocation: nesting depth of acquire_lock calls
    calls,          \* per invocation: calls lambda_handler made after acquire_lock returned
    result,         \* per invocation: what lambda_handler returned or raised
    overstayed,     \* history: some invocation was in its critical section with a stale lock
    ev,             \* inputs of one ScalingDecision.evaluate call
    decision,       \* what that call returned
    record,         \* the cluster's record: node_count, last_scale_time, metrics_history
    table,          \* the metrics history table of the forecaster, a bag of samples
    run,            \* what the latest control-loop invocation saw and did
    trail,          \* history: when the latest scaling actions were executed
    mix,            \* arguments and result of one calculate_spot_ondemand_mix call
    fleet,          \* the running worker instances and the manager's configuration
    up,             \* what the latest EC2Manager.scale_up call asked for and returned
    kube,           \* one node as the orchestration API shows it, and the kube config
    drain,          \* what the latest EC2Manager._drain_node call did and returned
    sel,            \* arguments and result of one _select_instances_for_termination call
    hnd,            \* one lambda_handler invocation: its event, its calls, its result
    down,           \* arguments, calls and result of one EC2Manager.scale_down call
    appended,       \* history: the snapshots update_metrics_history appended, oldest first
    poll,           \* one polling loop: its clock, its polls and what it returned
    az              \* the subnets of the workers and the placements of one scale_up

vars == <<now, item, pc, current_time, retries, calls, result, overstayed, ev, decision,
          record, table, run, trail, mix, fleet, up, kube, drain, sel, hnd, down, appended, poll, az>>
nodeVars == <<kube, drain, sel>>
mgrVars == <<down, appended, poll, az>>
opsVars == <<mix, fleet, up, nodeVars, hnd, mgrVars>>
loopVars == <<record, table, run, trail>>
lockVars == <<now, item, pc, current_time, retries, calls, result, overstayed>>
evalVars == <<ev, decision>>

\* ------------------------------------------------------------------------
\* ScalingDecision (src/lambda/scaling_decision.py)
\* ------------------------------------------------------------------------
Min(a, b) == IF a < b THEN a ELSE b

\* history[-(n):] of Python: the last n items, the whole list when it is shorter
LastN(history, n) ==
    IF Len(history) <= n THEN history
    ELSE SubSeq(history, Len(history) - n + 1, Len(history))

\* the value None of Python for history and custom_metrics
NoHistory == <<>>
NoCustom == [present |-> FALSE, scale_needed |-> FALSE, reasons |-> <<>>]

\* a variant of _is_sustained_above that looks at the latest history item only
IsSustainedAboveLatestOnly(current_val, history, key, threshold, window) ==
    IF current_val <= threshold THEN FALSE
    ELSE IF history = <<>> \/ Len(history) < window - 1 THEN FALSE
    ELSE ~(history[Len(history)][key] <= threshold)

\* _is_sustained_above: the current value and the last window-1 history
\* items all exceed the threshold
IsSustainedAbove(current_val, history, key, threshold, window) ==
    IF current_val <= threshold THEN FALSE
    ELSE IF history = <<>> \/ Len(history) < window - 1 THEN FALSE
    ELSE \A i \in DOMAIN LastN(history, window - 1) :
            ~(LastN(history, window - 1)[i][key] <= threshold)

ScaleDownKeys == {"cpu_usage", "memory_usage", "pending_pods"}

\* a variant of _is_sustained_below_all that accepts a history shorter than
\* window-1 items
IsSustainedBelowAllShortHistory(metrics, history, thresholds, window) ==
    IF \E key \in ScaleDownKeys : metrics[key] >= thresholds[key] THEN FALSE
    ELSE IF history = <<>> THEN FALSE
    ELSE \A i \in DOMAIN LastN(history, window - 1) :
            \A key \in ScaleDownKeys :
                ~(LastN(history, window - 1)[i][key] >= thresholds[key])

\* _is_sustained_below_all: every metric of the current reading and of the
\* last window-1 history items is below its threshold
IsSustainedBelowAll(metrics, history, thresholds, window) ==
    IF \E key \in ScaleDownKeys : metrics[key] >= thresholds[key] THEN FALSE
    ELSE IF history = <<>> \/ Len(history) < window - 1 THEN FALSE
    ELSE \A i \in DOMAIN LastN(history, window - 1) :
            \A key \in ScaleDownKeys :
                ~(LastN(history, window - 1)[i][key] >= thresholds[key])

\* a returned decision; reason is the list of reasons the code joins with ", "
Decision(action, nodes, reason) == [action |-> action, nodes |-> nodes, reason |-> reason]
\* evaluate left by an exception instead of a return
Raised(error) == [action |-> "raise", nodes |-> 0, reason |-> <<error>>]

\* lines 73-89: the reasons appended to scale_up_reasons, in order
ScaleUpReasons(metrics, history, custom_metrics) ==
    (IF IsSustainedAbove(metrics.cpu_usage, history, "cpu_usage",
                         CPU_SCALE_UP_THRESHOLD, SCALE_UP_WINDOW)
        THEN <<"CPU sustained > 70.0%">> ELSE <<>>)
    \o (IF IsSustainedAbove(metrics.memory_usage, history, "memory_usage",
                            MEMORY_SCALE_UP_THRESHOLD, SCALE_UP_WINDOW)
        THEN <<"Memory sustained > 75.0%">> ELSE <<>>)
    \o (IF IsSustainedAbove(metrics.pending_pods, history, "pending_pods",
                            0, SCALE_UP_WINDOW)
        THEN <<"Pending pods sustained > 0">> ELSE <<>>)
    \o (IF custom_metrics.present /\ custom_metrics.scale_needed
        THEN [i \in DOMAIN custom_metrics.reasons |-> "Custom"] ELSE <<>>)

\* a variant of the scale-up branch without the cap of line 101
ScaleUpBranchUncapped(d, metrics, reasons) ==
    IF d.current_time - d.last_scale_time < SCALE_UP_COOLDOWN
    THEN Decision("none", 0, <<"In cooldown">>)
    ELSE IF d.current_nodes >= d.max_nodes
    THEN Decision("none", 0, <<"At max capacity">>)
    ELSE Decision("scale_up",
                  IF metrics.cpu_usage > CPU_EXTREME \/ metrics.pending_pods > PENDING_EXTREME
                  THEN 2 ELSE 1,
                  reasons)

\* lines 91-107: what evaluate does once scale_up_reasons is not empty
ScaleUpBranch(d, metrics, reasons) ==
    IF d.current_time - d.last_scale_time < SCALE_UP_COOLDOWN
    THEN Decision("none", 0, <<"In cooldown">>)
    ELSE IF d.current_nodes >= d.max_nodes
    THEN Decision("none", 0, <<"At max capacity">>)
    ELSE Decision("scale_up",
                  Min(IF metrics.cpu_usage > CPU_EXTREME \/ metrics.pending_pods > PENDING_EXTREME
                      THEN 2 ELSE 1,
                      d.max_nodes - d.current_nodes),
                  reasons)

\* a variant of the scale-down evaluation without the floor of line 127
ScaleDownBranchNoFloor(d, metrics, history) ==
    IF IsSustainedBelowAll(metrics, history,
                           [cpu_usage |-> CPU_SCALE_DOWN_THRESHOLD,
                            memory_usage |-> MEMORY_SCALE_DOWN_THRESHOLD,
                            pending_pods |-> PENDING_SCALE_DOWN_THRESHOLD],
                           SCALE_DOWN_WINDOW)
    THEN IF d.current_time - d.last_scale_time < SCALE_DOWN_COOLDOWN
         THEN Decision("none", 0, <<"In cooldown">>)
         ELSE Decision("scale_down", 1, <<"Sustained low utilization (10m)">>)
    ELSE Decision("none", 0, <<"Stable">>)

\* lines 109-136: the scale-down evaluation and the default
ScaleDownBranch(d, metrics, history) ==
    IF IsSustainedBelowAll(metrics, history,
                           [cpu_usage |-> CPU_SCALE_DOWN_THRESHOLD,
                            memory_usage |-> MEMORY_SCALE_DOWN_THRESHOLD,
                            pending_pods |-> PENDING_SCALE_DOWN_THRESHOLD],
                           SCALE_DOWN_WINDOW)
    THEN IF d.current_time - d.last_scale_time < SCALE_DOWN_COOLDOWN
         THEN Decision("none", 0, <<"In cooldown">>)
         ELSE IF d.current_nodes <= d.min_nodes
         THEN Decision("none", 0, <<"At min capacity">>)
         ELSE Decision("scale_down", 1, <<"Sustained low utilization (10m)">>)
    ELSE Decision("none", 0, <<"Stable">>)

\* a variant of evaluate that applies the scale-up cooldown before the
\* minimum is enforced
EvaluateCooldownFirst(d, metrics, history, custom_metrics) ==
    IF d.current_time - d.last_scale_time < SCALE_UP_COOLDOWN
    THEN Decision("none", 0, <<"In cooldown">>)
    ELSE IF d.current_nodes < d.min_nodes
    THEN Decision("scale_up", d.min_nodes - d.current_nodes,
                  <<"Enforcing minimum node count">>)
    ELSE IF d.current_nodes >= d.max_nodes
    THEN Raised("UnboundLocalError")
    ELSE IF ScaleUpReasons(metrics, history, custom_metrics) # <<>>
    THEN ScaleUpBranch(d, metrics, ScaleUpReasons(metrics, history, custom_metrics))
    ELSE ScaleDownBranch(d, metrics, history)

\* ScalingDecision.evaluate.  d holds the fields of the engine and the clock
\* reading of line 52.  scale_up_reasons is bound only in the else branch of
\* line 68, so with current_nodes >= max_nodes its first use (line 78, 81, 84,
\* 89 or, at the latest, line 91) raises UnboundLocalError.
Evaluate(d, metrics, history, custom_metrics) ==
    IF d.current_nodes < d.min_nodes
    THEN Decision("scale_up", d.min_nodes - d.current_nodes,
                  <<"Enforcing minimum node count">>)
    ELSE IF d.current_nodes >= d.max_nodes
    THEN Raised("UnboundLocalError")
    ELSE IF ScaleUpReasons(metrics, history, custom_metrics) # <<>>
    THEN ScaleUpBranch(d, metrics, ScaleUpReasons(metrics, history, custom_metrics))
    ELSE ScaleDownBranch(d, metrics, history)

\* ------------------------------------------------------------------------
\* PredictiveScaler (src/lambda/predictive_scaling.py)
\* ------------------------------------------------------------------------
Max(a, b) == IF a > b THEN a ELSE b

RECURSIVE Gcd(_, _)
Gcd(a, b) == IF b = 0 THEN a ELSE Gcd(b, a % b)

\* the forecast's CPU and memory are quotients of sums of samples; the model
\* keeps them as fractions n/d (d > 0) in lowest terms instead of floats
Rat(n, d) == IF n = 0 THEN [n |-> 0, d |-> 1]
             ELSE [n |-> n \div Gcd(n, d), d |-> d \div Gcd(n, d)]
RatMul(a, b) == Rat(a.n * b.n, a.d * b.d)
\* a > k, and int(a * m) of Python for a >= 0
RatGreater(a, k) == a.n * k.d > k.n * a.d
RatFloorTimes(a, m) == (a.n * m) \div a.d

\* an item of the metrics history table as store_metrics writes it (lines
\* 49-58); timestamp, node_count and ttl are not read by the forecast
Sample(hour, day_of_week, cpu_percent, memory_percent, pending_pods) ==
    [hour |-> hour, day_of_week |-> day_of_week, cpu_percent |-> cpu_percent,
     memory_percent |-> memory_percent, pending_pods |-> pending_pods]

\* the table is a bag: how many items carry each sample's values
EmptyTable == [x \in {} |-> 0]
AddSample(B, x) ==
    [y \in DOMAIN B \cup {x} |-> IF y = x THEN (IF x \in DOMAIN B THEN B[x] + 1 ELSE 1) ELSE B[y]]
Copies(x, k) == [y \in {x} |-> k]

RECURSIVE SampleCount(_)
SampleCount(B) ==
    IF DOMAIN B = {} THEN 0
    ELSE LET x == CHOOSE y \in DOMAIN B : TRUE
         IN B[x] + SampleCount([y \in DOMAIN B \ {x} |-> B[y]])

RECURSIVE SampleSum(_, _)
SampleSum(B, key) ==
    IF DOMAIN B = {} THEN 0
    ELSE LET x == CHOOSE y \in DOMAIN B : TRUE
         IN B[x] * x[key] + SampleSum([y \in DOMAIN B \ {x} |-> B[y]], key)

\* the samples of one hour of the day, of one day of the week
\* (hourly_data[hour], daily_data[day] of detect_hourly_patterns and
\* detect_weekly_patterns)
Bucket(B, key, value) == [x \in {y \in DOMAIN B : y[key] = value} |-> B[x]]

\* statistics.mean over a bucket that is not empty
Mean(B, key) == Rat(SampleSum(B, key), SampleCount(B))

\* datetime fields of a unix time (UTC; 1 January 1970 was a Thursday,
\* weekday() 3)
HourOf(t) == (t \div 3600) % 24
MinuteOf(t) == (t \div 60) % 60
WeekdayOf(t) == ((t \div 86400) + 3) % 7

\* predict_next_hour_load returned None
NoPrediction ==
    [present |-> FALSE, predicted_cpu |-> Rat(0, 1), predicted_memory |-> Rat(0, 1),
     predicted_pending_pods |-> 0, confidence |-> 0]

\* a variant of predict_next_hour_load without the minimum of 20 samples
PredictNextHourLoadAnySamples(historical, t) ==
    LET hourly == Bucket(historical, "hour", (HourOf(t) + 1) % 24)
        weekly == Bucket(historical, "day_of_week", WeekdayOf(t))
        usable == SampleCount(hourly) >= MIN_BUCKET_SAMPLES
        confidence == IF usable THEN Min(SampleCount(hourly), 10) ELSE 0
        trend == SampleCount(weekly) > 0 /\ SampleSum(historical, "cpu_percent") > 0
        multiplier ==
            IF trend
            THEN Rat(SampleSum(weekly, "cpu_percent") * SampleCount(historical),
                     SampleCount(weekly) * SampleSum(historical, "cpu_percent"))
            ELSE Rat(1, 1)
        margin == IF confidence < MARGIN_CONFIDENCE_TENTHS THEN Rat(6, 5) ELSE Rat(1, 1)
    IN  [present |-> TRUE,
         predicted_cpu |->
            IF usable THEN RatMul(RatMul(Mean(hourly, "cpu_percent"), multiplier), margin)
            ELSE Rat(0, 1),
         predicted_memory |->
            IF usable THEN RatMul(RatMul(Mean(hourly, "memory_percent"), multiplier), margin)
            ELSE Rat(0, 1),
         predicted_pending_pods |->
            IF usable THEN SampleSum(hourly, "pending_pods") \div SampleCount(hourly) ELSE 0,
         confidence |-> confidence]

\* predict_next_hour_load, lines 177-235, on the samples get_historical_metrics
\* returned (an empty list when the scan failed) at time t.  The prediction
\* is the mean of the next hour's bucket when it has 3 samples or more,
\* scaled by the day's mean CPU over the overall mean CPU, and by 1.2 when
\* the confidence min(samples / 10, 1.0) is below 0.5.
PredictNextHourLoad(historical, t) ==
    IF SampleCount(historical) < MIN_HISTORICAL_SAMPLES THEN NoPrediction
    ELSE
    LET hourly == Bucket(historical, "hour", (HourOf(t) + 1) % 24)
        weekly == Bucket(historical, "day_of_week", WeekdayOf(t))
        usable == SampleCount(hourly) >= MIN_BUCKET_SAMPLES
        confidence == IF usable THEN Min(SampleCount(hourly), 10) ELSE 0
        trend == SampleCount(weekly) > 0 /\ SampleSum(historical, "cpu_percent") > 0
        multiplier ==
            IF trend
            THEN Rat(SampleSum(weekly, "cpu_percent") * SampleCount(historical),
                     SampleCount(weekly) * SampleSum(historical, "cpu_percent"))
            ELSE Rat(1, 1)
        margin == IF confidence < MARGIN_CONFIDENCE_TENTHS THEN Rat(6, 5) ELSE Rat(1, 1)
    IN  [present |-> TRUE,
         predicted_cpu |->
            IF usable THEN RatMul(RatMul(Mean(hourly, "cpu_percent"), multiplier), margin)
            ELSE Rat(0, 1),
         predicted_memory |->
            IF usable THEN RatMul(RatMul(Mean(hourly, "memory_percent"), multiplier), margin)
            ELSE Rat(0, 1),
         predicted_pending_pods |->
            IF usable THEN SampleSum(hourly, "pending_pods") \div SampleCount(hourly) ELSE 0,
         confidence |-> confidence]

\* should_proactive_scale_up, lines 250-263 (the flag of the returned pair);
\* threshold * 1.05 is 73.5 = 147/2
ShouldProactiveScaleUp(prediction) ==
    IF ~prediction.present \/ prediction.confidence < MIN_CONFIDENCE_TENTHS THEN FALSE
    ELSE \/ RatGreater(prediction.predicted_cpu, Rat(PREDICTIVE_THRESHOLD, 1))
         \/ RatGreater(prediction.predicted_memory, Rat(PREDICTIVE_THRESHOLD * 21, 20))
         \/ prediction.predicted_pending_pods > 0

\* a variant of calculate_recommended_nodes without the upper bound of line 296
CalculateRecommendedNodesUnbounded(prediction, current_nodes) ==
    IF ~prediction.present THEN current_nodes
    ELSE Max(MIN_RECOMMENDED,
             Max(current_nodes,
                 RatFloorTimes(RatMul(prediction.predicted_cpu, Rat(1, TARGET_UTILIZATION)),
                               current_nodes) + 1))

\* calculate_recommended_nodes, lines 280-301, with target_utilization = 60
CalculateRecommendedNodes(prediction, current_nodes) ==
    IF ~prediction.present THEN current_nodes
    ELSE Max(MIN_RECOMMENDED,
             Min(Max(current_nodes,
                     RatFloorTimes(RatMul(prediction.predicted_cpu, Rat(1, TARGET_UTILIZATION)),
                                   current_nodes) + 1),
                 current_nodes + MAX_RECOMMENDED_STEP))

\* ------------------------------------------------------------------------
\* Inputs of evaluate that the decision specification draws from
\* ------------------------------------------------------------------------
Snap(c, m, p) == [cpu_usage |-> c, memory_usage |-> m, pending_pods |-> p]

\* current readings on both sides of every threshold evaluate compares with
EvalReadings ==
    {Snap(29, 49, 0), Snap(30, 49, 0), Snap(29, 50, 0), Snap(29, 49, 1),
     Snap(70, 75, 0), Snap(71, 49, 0), Snap(29, 76, 0), Snap(85, 76, 5),
     Snap(86, 49, 0), Snap(71, 76, 6)}

\* a history is a run of one base reading with at most one other reading in it
HistoryBases == {Snap(29, 49, 0), Snap(71, 76, 1)}
HistoryOutliers ==
    {Snap(30, 49, 0), Snap(29, 50, 0), Snap(29, 49, 1),
     Snap(70, 76, 1), Snap(71, 75, 1), Snap(71, 76, 0)}
\* lengths around the two windows, 0..3 and 8..10, and half the scale-down
\* window, 5
HistoryLengths ==
    (0..SCALE_UP_WINDOW) \cup {SCALE_DOWN_WINDOW \div 2} \cup ((MaxHistory - 2)..MaxHistory)
EvalHistories ==
    {[i \in 1..n |-> IF i = k THEN o ELSE b] :
        n \in HistoryLengths, k \in 0..MaxHistory, b \in HistoryBases, o \in HistoryOutliers}

\* the custom signal: scale_needed false, and scale_needed true with a reason
EvalCustom ==
    {[present |-> TRUE, scale_needed |-> FALSE, reasons |-> <<>>],
     [present |-> TRUE, scale_needed |-> TRUE, reasons |-> <<"queue depth">>]}

\* the engine: min_nodes below max_nodes and equal to it, current_nodes from 0
\* to above max_nodes, the last scaling at second 1000 and the clock 299, 300,
\* 599 and 600 seconds after it
EvalEngines ==
    {[min_nodes |-> lo, max_nodes |-> MAX_NODES, current_nodes |-> c,
      last_scale_time |-> 1000, current_time |-> t] :
        lo \in {MIN_NODES, MAX_NODES}, c \in 0..(MAX_NODES + 1),
        t \in {1000, 1299, 1300, 1599, 1600}}

\* the calls of the given engines: every reading after every history without
\* a custom signal, and every reading after three histories with one
EvalInputs(engines) ==
    {[d |-> d, metrics |-> m, history |-> h, custom_metrics |-> NoCustom] :
        d \in engines, m \in EvalReadings, h \in EvalHistories}
    \cup
    {[d |-> d, metrics |-> m, history |-> h, custom_metrics |-> c] :
        d \in engines, m \in EvalReadings, c \in EvalCustom,
        h \in {<<>>, <<Snap(71, 76, 1), Snap(71, 76, 1)>>, <<Snap(29, 49, 0), Snap(29, 49, 0)>>}}

NotEvaluated == [action |-> "pending", nodes |-> 0, reason |-> <<>>]

\* the inputs while no evaluate call is looked at
NoInputs ==
    [d |-> [min_nodes |-> MIN_NODES, max_nodes |-> MAX_NODES, current_nodes |-> MIN_NODES,
            last_scale_time |-> 0, current_time |-> 0],
     metrics |-> Snap(0, 0, 0), history |-> NoHistory, custom_metrics |-> NoCustom]

\* ------------------------------------------------------------------------
\* StateManager (src/lambda/state_manager.py): the lock attributes of the record
\* ------------------------------------------------------------------------
\* the control-loop invocations that may overlap
Procs == {1, 2, 3}

\* an attribute the record does not have
Missing == -1

\* no item, or an item without the lock attributes
NoItem == [has_flag |-> FALSE, scaling_in_progress |-> FALSE,
           lock_acquired_at |-> Missing, lock_expiry |-> Missing]

\* variants of the ConditionExpression: with :expired = current_time (the
\* unused expired_time of line 37), without any condition, and without the
\* expiry clause
LockConditionExpiredNow(it, t) ==
    \/ ~it.has_flag
    \/ it.scaling_in_progress = FALSE
    \/ (it.lock_acquired_at # Missing /\ it.lock_acquired_at < t)

LockConditionUnconditional(it, t) == TRUE

LockConditionNoExpiry(it, t) ==
    \/ ~it.has_flag
    \/ it.scaling_in_progress = FALSE

\* the ConditionExpression of acquire_lock, line 47, with :expired = t - 300
LockCondition(it, t) ==
    \/ ~it.has_flag
    \/ it.scaling_in_progress = FALSE
    \/ (it.lock_acquired_at # Missing /\ it.lock_acquired_at < t - LOCK_STALE_SECONDS)

\* the UpdateExpression of acquire_lock, line 46
LockedItem(it, t) ==
    [it EXCEPT !.has_flag = TRUE, !.scaling_in_progress = TRUE,
               !.lock_acquired_at = t, !.lock_expiry = t + LOCK_STALE_SECONDS]

\* the UpdateExpression of release_lock, line 84; lock_released_at, which it
\* also stamps, is read nowhere and is not part of the modelled record
ReleasedItem(it) ==
    [it EXCEPT !.has_flag = TRUE, !.scaling_in_progress = FALSE]

\* lock_age of line 64: state.get('lock_acquired_at', current_time)
LockAge(it, t) ==
    t - (IF it.lock_acquired_at = Missing THEN t ELSE it.lock_acquired_at)

\* line 65
IsStale(it, t) == LockAge(it, t) > LOCK_STALE_SECONDS

\* ------------------------------------------------------------------------
\* lambda_handler (src/lambda/autoscaler.py), one invocation per process
\* ------------------------------------------------------------------------
NoResult == [kind |-> "running", statusCode |-> 0, body |-> ""]
Returned(body) == [kind |-> "return", statusCode |-> 200, body |-> body]
Raises == [kind |-> "raise", statusCode |-> 0, body |-> ""]

\* the calls of the try body, lines 138-306, in the order the code makes them
BodyCalls(scales) ==
    <<"get_state", "update_metrics_history", "evaluate">>
    \o (IF scales THEN <<"scale", "update_state", "send_notification">> ELSE <<>>)

\* the invocation is between its successful acquire_lock and its release_lock
InCriticalSection(p) == pc[p] \in {"body", "finally", "finally_exc"}

\* some invocation is in its critical section with a lock older than the
\* staleness window
Overstays ==
    \E p \in Procs : InCriticalSection(p) /\ now - current_time[p] > LOCK_STALE_SECONDS

\* what every step of an invocation leaves behind: the history of stale
\* critical sections is kept, the decision engine's variables are not touched
Observe ==
    /\ overstayed' = (overstayed \/ Overstays')
    /\ UNCHANGED <<evalVars, loopVars, opsVars>>

\* EventBridge starts an invocation; metrics are collected before the lock
Invoke(p) ==
    /\ pc[p] \in {"idle", "done", "crashed"}
    /\ pc' = [pc EXCEPT ![p] = "acquire"]
    /\ current_time' = [current_time EXCEPT ![p] = Missing]
    /\ retries' = [retries EXCEPT ![p] = 0]
    /\ calls' = [calls EXCEPT ![p] = <<>>]
    /\ result' = [result EXCEPT ![p] = NoResult]
    /\ UNCHANGED <<now, item>>
    /\ Observe

\* acquire_lock line 35: current_time = int(time.time())
ReadClock(p) ==
    /\ pc[p] = "acquire"
    /\ current_time' = [current_time EXCEPT ![p] = now]
    /\ pc' = [pc EXCEPT ![p] = "update_item"]
    /\ UNCHANGED <<now, item, retries, calls, result>>
    /\ Observe

\* acquire_lock lines 44-60: the conditional write; True is returned on
\* success, ConditionalCheckFailedException leads to the conflict path
CondWrite(p) ==
    /\ pc[p] = "update_item"
    /\ IF LockCondition(item, current_time[p])
       THEN /\ item' = LockedItem(item, current_time[p])
            /\ pc' = [pc EXCEPT ![p] = "body"]
            /\ retries' = [retries EXCEPT ![p] = 0]
       ELSE /\ item' = item
            /\ pc' = [pc EXCEPT ![p] = "conflict"]
            /\ retries' = retries
    /\ UNCHANGED <<now, current_time, calls, result>>
    /\ Observe

\* a variant in which lambda_handler reads the state before it looks at what
\* acquire_lock returned
CheckStaleReadsState(p) ==
    /\ pc[p] = "conflict"
    /\ \E read_ok \in BOOLEAN :
        IF read_ok /\ IsStale(item, current_time[p])
        THEN /\ pc' = [pc EXCEPT ![p] = "force_release"]
             /\ UNCHANGED <<result, current_time, retries, calls>>
        ELSE /\ pc' = [pc EXCEPT ![p] = "done"]
             /\ result' = [result EXCEPT ![p] = Returned("Skipped: Scaling already in progress")]
             /\ calls' = [calls EXCEPT ![p] = <<"get_state">>]
             /\ current_time' = [current_time EXCEPT ![p] = Missing]
             /\ retries' = [retries EXCEPT ![p] = 0]
    /\ UNCHANGED <<now, item>>
    /\ Observe

\* acquire_lock lines 63-74: read the record and compare the lock's age; a
\* fresh lock, or a failed read (the bare except of line 72), makes
\* acquire_lock return False, and lambda_handler (lines 131-136) returns at once
CheckStale(p) ==
    /\ pc[p] = "conflict"
    /\ \E read_ok \in BOOLEAN :
        IF read_ok /\ IsStale(item, current_time[p])
        THEN /\ pc' = [pc EXCEPT ![p] = "force_release"]
             /\ UNCHANGED <<result, current_time, retries>>
        ELSE /\ pc' = [pc EXCEPT ![p] = "done"]
             /\ result' = [result EXCEPT ![p] = Returned("Skipped: Scaling already in progress")]
             /\ current_time' = [current_time EXCEPT ![p] = Missing]
             /\ retries' = [retries EXCEPT ![p] = 0]
    /\ UNCHANGED <<now, item, calls>>
    /\ Observe

\* acquire_lock lines 67-74: release_lock, then the nested acquire_lock; a
\* release_lock that raises ends in the bare except and False is returned
ForceRelease(p) ==
    /\ pc[p] = "force_release"
    /\ retries[p] < MaxRetries
    /\ \E write_ok \in BOOLEAN :
        IF write_ok
        THEN /\ item' = ReleasedItem(item)
             /\ retries' = [retries EXCEPT ![p] = retries[p] + 1]
             /\ pc' = [pc EXCEPT ![p] = "acquire"]
             /\ UNCHANGED <<result, current_time>>
        ELSE /\ item' = item
             /\ pc' = [pc EXCEPT ![p] = "done"]
             /\ result' = [result EXCEPT ![p] = Returned("Skipped: Scaling already in progress")]
             /\ current_time' = [current_time EXCEPT ![p] = Missing]
             /\ retries' = [retries EXCEPT ![p] = 0]
    /\ UNCHANGED <<now, calls>>
    /\ Observe

\* a variant of the try body without the finally block: an exception leaves
\* the handler at once
BodyWithoutFinally(p) ==
    /\ pc[p] = "body"
    /\ \E scales \in BOOLEAN, n \in 0..6 :
        /\ n \in {0, 1, Len(BodyCalls(scales))}
        /\ IF n = 0
           THEN /\ calls' = [calls EXCEPT ![p] = BodyCalls(scales)]
                /\ pc' = [pc EXCEPT ![p] = "finally"]
                /\ result' = [result EXCEPT ![p] =
                        IF scales THEN Returned("Scaling completed")
                        ELSE Returned("No scaling needed")]
                /\ current_time' = current_time
           ELSE /\ calls' = [calls EXCEPT ![p] = SubSeq(BodyCalls(scales), 1, n)]
                /\ pc' = [pc EXCEPT ![p] = "done"]
                /\ result' = [result EXCEPT ![p] = Raises]
                /\ current_time' = [current_time EXCEPT ![p] = Missing]
    /\ UNCHANGED <<now, item, retries>>
    /\ Observe

\* lambda_handler lines 138-306: the try body.  It returns after evaluate
\* when no action is needed, returns after the scaling, or is left by an
\* exception raised by its n-th call (the model follows the first and the
\* last call of each path raising).
Body(p) ==
    /\ pc[p] = "body"
    /\ \E scales \in BOOLEAN, n \in 0..6 :
        /\ n \in {0, 1, Len(BodyCalls(scales))}
        /\ IF n = 0
           THEN /\ calls' = [calls EXCEPT ![p] = BodyCalls(scales)]
                /\ pc' = [pc EXCEPT ![p] = "finally"]
                /\ result' = [result EXCEPT ![p] =
                        IF scales THEN Returned("Scaling completed")
                        ELSE Returned("No scaling needed")]
           ELSE /\ calls' = [calls EXCEPT ![p] = SubSeq(BodyCalls(scales), 1, n)]
                /\ pc' = [pc EXCEPT ![p] = "finally_exc"]
                /\ result' = [result EXCEPT ![p] = Raises]
    /\ UNCHANGED <<now, item, current_time, retries>>
    /\ Observe

\* lambda_handler lines 308-311: the finally block
Release(p) ==
    /\ pc[p] \in {"finally", "finally_exc"}
    /\ item' = ReleasedItem(item)
    /\ calls' = [calls EXCEPT ![p] = Append(calls[p], "release_lock")]
    /\ pc' = [pc EXCEPT ![p] = "done"]
    /\ current_time' = [current_time EXCEPT ![p] = Missing]
    /\ UNCHANGED <<now, retries, result>>
    /\ Observe

\* the invocation is killed inside its critical section (Lambda timeout):
\* the finally block does not run
Crash(p) ==
    /\ InCriticalSection(p)
    /\ pc' = [pc EXCEPT ![p] = "crashed"]
    /\ current_time' = [current_time EXCEPT ![p] = Missing]
    /\ calls' = [calls EXCEPT ![p] = <<>>]
    /\ result' = [result EXCEPT ![p] = NoResult]
    /\ UNCHANGED <<now, item, retries>>
    /\ Observe

\* time passes
Tick ==
    /\ now + TickStep <= MaxTime
    /\ now' = now + TickStep
    /\ UNCHANGED <<item, pc, current_time, retries, calls, result>>
    /\ Observe

\* ------------------------------------------------------------------------
\* The state of the control loop before its first invocation
\* ------------------------------------------------------------------------
\* the record before any scaling: node_count and last_scale_time are absent
FreshRecord == [node_count |-> Missing, last_scale_time |-> Missing, metrics_history |-> <<>>]

\* no scaling action has been executed yet
NoTrail == [last_scale_up |-> Missing, last_scaling |-> Missing, last_predictive |-> Missing]

\* no invocation has run yet
NotRun ==
    [status |-> "idle", metric_node_count |-> 0, stored_node_count |-> 0,
     consulted |-> FALSE, prediction |-> NoPrediction, recommended_nodes |-> 0,
     action |-> NotEvaluated, called |-> FALSE, before |-> NoTrail]

\* the loop's variables while no invocation is looked at
LoopIdle ==
    /\ record = FreshRecord
    /\ table = EmptyTable
    /\ run = NotRun
    /\ trail = NoTrail

\* ------------------------------------------------------------------------
\* The state of the EC2 manager before any of its operations is looked at
\* ------------------------------------------------------------------------
\* no calculate_spot_ondemand_mix call has been made
NoMix ==
    [status |-> "idle", current_nodes |-> 0, desired_nodes |-> 0,
     existing_spot_count |-> 0, existing_ondemand_count |-> 0, spot |-> 0, ondemand |-> 0]

\* no worker instance runs; spot_percentage has the default of EC2Manager.__init__
EmptyFleet == [spot |-> 0, ondemand |-> 0, spot_percentage |-> DEFAULT_SPOT_PERCENTAGE]

\* no scale_up call has been made
NoScaleUp ==
    [status |-> "idle", nodes_to_add |-> 0, before |-> EmptyFleet, spot_failed |-> FALSE,
     ondemand_failed |-> FALSE, success |-> FALSE, spot_count |-> 0, ondemand_count |-> 0,
     instance_ids |-> 0]

\* the kube config is loaded from inside the cluster; the node is registered,
\* schedulable and hosts no pod
QuietNode == [config |-> "incluster", registered |-> TRUE, cordoned |-> FALSE, pods |-> {}]

\* no _drain_node call has been made
NoDrain ==
    [status |-> "idle", timeout |-> 0, returned |-> FALSE, gate |-> "not_reached",
     evicted |-> {}, before |-> QuietNode]

\* no _select_instances_for_termination call has been made
NoSelection == [status |-> "idle", instances |-> <<>>, count |-> 0, selected |-> <<>>]

\* no invocation of lambda_handler is looked at
NotInvoked ==
    [status |-> "idle", event |-> "none", trace |-> <<>>, result |-> NoResult,
     action |-> NotEvaluated, current_nodes |-> 0, exc |-> "", notifications |-> <<>>,
     entry |-> FreshRecord, original |-> "", changed |-> 0]

\* the node-side variables while no drain or selection is looked at
NodesIdle ==
    /\ kube = QuietNode
    /\ drain = NoDrain
    /\ sel = NoSelection

\* no scale_down call has been made
NoScaleDown ==
    [status |-> "idle", workers |-> <<>>, config |-> "incluster", nodes_to_remove |-> 0,
     selected |-> <<>>, events |-> <<>>, terminated |-> <<>>, cordoned |-> {},
     outcome |-> "none"]

\* no update_metrics_history call has been made
NoAppends == <<>>

\* no polling loop is running
NoPoll ==
    [status |-> "idle", loop |-> "none", timeout |-> 0, interval |-> 0, elapsed |-> 0,
     polls |-> 0, last |-> "none", expected |-> {}, ready |-> {}, remaining |-> 0,
     exit |-> "none",
     returned |-> FALSE, scale_up |-> [success |-> FALSE, ready_nodes |-> {}]]

\* no instance has been placed
NoPlacement ==
    [status |-> "idle", before |-> <<>>, spot_count |-> 0, ondemand_count |-> 0,
     placements |-> <<>>, after |-> <<>>]

\* the variables of scale_down, of the polling loops and of the placement
\* while they are not looked at
MgrIdle ==
    /\ down = NoScaleDown
    /\ appended = NoAppends
    /\ poll = NoPoll
    /\ az = NoPlacement

\* the manager's variables while none of its operations is looked at
OpsIdle ==
    /\ mix = NoMix
    /\ fleet = EmptyFleet
    /\ up = NoScaleUp
    /\ NodesIdle
    /\ hnd = NotInvoked
    /\ MgrIdle

\* ------------------------------------------------------------------------
\* Specification of the overlapping invocations and the lock
\* ------------------------------------------------------------------------
LockInit ==
    /\ now = 0
    /\ item = NoItem
    /\ pc = [p \in Procs |-> "idle"]
    /\ current_time = [p \in Procs |-> Missing]
    /\ retries = [p \in Procs |-> 0]
    /\ calls = [p \in Procs |-> <<>>]
    /\ result = [p \in Procs |-> NoResult]
    /\ overstayed = FALSE

Next ==
    \/ \E p \in Procs : Invoke(p)
    \/ \E p \in Procs : ReadClock(p)
    \/ \E p \in Procs : CondWrite(p)
    \/ \E p \in Procs : CheckStale(p)
    \/ \E p \in Procs : ForceRelease(p)
    \/ \E p \in Procs : Body(p)
    \/ \E p \in Procs : Release(p)
    \/ \E p \in Procs : Crash(p)
    \/ Tick

Init ==
    /\ LockInit
    /\ ev = NoInputs
    /\ decision = NotEvaluated
    /\ LoopIdle
    /\ OpsIdle

Spec == Init /\ [][Next]_vars

\* ------------------------------------------------------------------------
\* Specification of the decision engine: one evaluate call per input
\* ------------------------------------------------------------------------
EvaluateCall ==
    /\ decision = NotEvaluated
    /\ decision' = Evaluate(ev.d, ev.metrics, ev.history, ev.custom_metrics)
    /\ UNCHANGED <<ev, lockVars, loopVars, opsVars>>

InitEval ==
    /\ LockInit
    /\ ev \in EvalInputs(EvalEngines)
    /\ decision = NotEvaluated
    /\ LoopIdle
    /\ OpsIdle

NextEval == EvaluateCall

SpecEval == InitEval /\ [][NextEval]_vars

\* ------------------------------------------------------------------------
\* Specification of a race: two callers run acquire_lock against a record
\* whose lock is absent or released, and nothing else touches the record
\* ------------------------------------------------------------------------
Racers == {1, 2}

\* the record after an earlier invocation acquired at second 0 and released
ReleasedEarlier == ReleasedItem(LockedItem(NoItem, 0))

InitRace ==
    /\ now = 0
    /\ item \in {NoItem, ReleasedEarlier}
    /\ pc = [p \in Procs |-> IF p \in Racers THEN "acquire" ELSE "idle"]
    /\ current_time = [p \in Procs |-> Missing]
    /\ retries = [p \in Procs |-> 0]
    /\ calls = [p \in Procs |-> <<>>]
    /\ result = [p \in Procs |-> NoResult]
    /\ overstayed = FALSE
    /\ ev = NoInputs
    /\ decision = NotEvaluated
    /\ LoopIdle
    /\ OpsIdle

NextRace ==
    \/ \E p \in Racers : ReadClock(p)
    \/ \E p \in Racers : CondWrite(p)
    \/ \E p \in Racers : CheckStale(p)
    \/ Tick

SpecRace == InitRace /\ [][NextRace]_vars

\* ------------------------------------------------------------------------
\* The control loop: lambda_handler invocations one after the other
\* ------------------------------------------------------------------------
\* ENABLE_PREDICTIVE_SCALING and METRICS_HISTORY_TABLE are set; with
\* ENABLE_CUSTOM_METRICS unset custom_metrics_eval stays None (and when it is
\* set, the undefined PROMETHEUS_USERNAME of line 195 raises a NameError that
\* line 199 catches, so it stays None as well)

\* current_state.get("node_count", MIN_NODES), line 142, and
\* current_state.get('last_scale_time', 0), line 185
StoredNodeCount(rec) == IF rec.node_count = Missing THEN MIN_NODES ELSE rec.node_count
LastScaleTime(rec) == IF rec.last_scale_time = Missing THEN 0 ELSE rec.last_scale_time

\* a variant of the reconciliation that falls back to the stored count when
\* the metrics show no node
ReconciledNodesStoredOnZero(metric_node_count, stored_node_count) ==
    IF metric_node_count > 0 THEN metric_node_count ELSE stored_node_count

\* lines 145-158: current_nodes is the metric count in both branches
ReconciledNodes(metric_node_count, stored_node_count) ==
    IF metric_node_count > 0 THEN metric_node_count ELSE metric_node_count

\* update_metrics_history, lines 151-181: append the snapshot, keep the last
\* max_history items
UpdateMetricsHistory(history, metrics) ==
    LastN(Append(history, Snap(metrics.cpu_usage, metrics.memory_usage, metrics.pending_pods)),
          MaxHistory)

\* line 209: the forecast is consulted
ConsultsForecast(action, t) == action.action = "none" /\ MinuteOf(t) >= LEAD_WINDOW_MINUTE

\* line 225
ProactiveNodes(recommended_nodes, current_nodes) ==
    Min(recommended_nodes - current_nodes, MAX_PROACTIVE_NODES)

\* lines 209-233: the action after the predictive check; prediction is what
\* predict_next_hour_load returned when the forecast was consulted
ProactiveAction(action, prediction, current_nodes, t) ==
    IF /\ ConsultsForecast(action, t)
       /\ prediction.present
       /\ ShouldProactiveScaleUp(prediction)
       /\ ProactiveNodes(CalculateRecommendedNodes(prediction, current_nodes), current_nodes) > 0
    THEN Decision("scale_up",
                  ProactiveNodes(CalculateRecommendedNodes(prediction, current_nodes), current_nodes),
                  <<"Predictive">>)
    ELSE action

\* line 269
NewNodeCount(current_nodes, action) ==
    current_nodes + (IF action.action = "scale_up" THEN action.nodes ELSE 0 - action.nodes)

\* where an executed action came from
KindOf(action) ==
    IF action.reason = <<"Predictive">> THEN "predictive"
    ELSE IF action.reason = <<"Enforcing minimum node count">> THEN "minimum"
    ELSE "reactive"

\* the readings and the live node counts that the loop is followed with
LoopReadings == {Snap(29, 49, 0), Snap(71, 76, 1)}
LiveCounts == 0..MAX_NODES

\* the record at LoopStart: a new cluster, and a cluster of three workers
\* that has been idle for nine readings
LoopRecords ==
    {FreshRecord,
     [node_count |-> 3, last_scale_time |-> 0,
      metrics_history |-> [i \in 1..(SCALE_DOWN_WINDOW - 1) |-> Snap(29, 49, 0)]]}

\* the forecaster's table at LoopStart: empty; 18 samples of the hour from
\* 01:00, taken on Wednesdays, with a busy CPU; 20 such samples with a
\* pending workload; 20 with a busy memory; 2 samples of that hour among 18
\* of another hour; 20 samples of the hour from 01:00, taken on Thursdays (the
\* weekday of LoopStart), with a CPU near its limit
LoopTables ==
    {EmptyTable,
     Copies(Sample(1, 2, 80, 50, 0), MIN_HISTORICAL_SAMPLES - 2),
     Copies(Sample(1, 2, 20, 20, 1), MIN_HISTORICAL_SAMPLES),
     Copies(Sample(1, 2, 50, 90, 0), MIN_HISTORICAL_SAMPLES),
     AddSample(AddSample(Copies(Sample(5, 2, 90, 90, 0), MIN_HISTORICAL_SAMPLES - 2),
                         Sample(1, 2, 90, 90, 0)),
               Sample(1, 2, 90, 90, 0)),
     Copies(Sample(1, 3, 95, 50, 0), MIN_HISTORICAL_SAMPLES)}

\* one invocation of lambda_handler, lines 114-336, that starts two minutes
\* after the previous one and meets no other invocation: metrics are
\* collected, the lock is taken and released, and the invocation returns
\* 'No scaling needed', returns 'Scaling completed', or raises.  The clock
\* readings of one invocation are taken as one instant, store_metrics (line
\* 170) is followed where its put_item succeeds, and scanned tells whether
\* the scan of get_historical_metrics did (it returns [] when it did not).
ControlLoop ==
    \E metrics \in LoopReadings, metric_node_count \in LiveCounts,
       fails \in {"none", "get_state", "scale"}, scanned \in BOOLEAN :
    LET t == now + LOOP_PERIOD
        stored_node_count == StoredNodeCount(record)
        current_nodes == ReconciledNodes(metric_node_count, stored_node_count)
        history == record.metrics_history
        d == [min_nodes |-> MIN_NODES, max_nodes |-> MAX_NODES, current_nodes |-> current_nodes,
              last_scale_time |-> LastScaleTime(record), current_time |-> t]
        reactive == Evaluate(d, metrics, history, NoCustom)
        stored_table ==
            AddSample(table, Sample(HourOf(t), WeekdayOf(t), metrics.cpu_usage,
                                    metrics.memory_usage, metrics.pending_pods))
        consulted == ConsultsForecast(reactive, t)
        prediction ==
            IF consulted
            THEN PredictNextHourLoad(IF scanned THEN stored_table ELSE EmptyTable, t)
            ELSE NoPrediction
        action == ProactiveAction(reactive, prediction, current_nodes, t)
        scales == action.action \in {"scale_up", "scale_down"}
        executed == scales /\ fails = "none"
        seen == [status |-> "raised", metric_node_count |-> metric_node_count,
                 stored_node_count |-> stored_node_count, consulted |-> FALSE,
                 prediction |-> NoPrediction, recommended_nodes |-> 0,
                 action |-> NotEvaluated, called |-> FALSE, before |-> trail]
    IN  /\ t <= LoopEnd
        /\ LockCondition(item, t)
        /\ now' = t
        /\ item' = ReleasedItem(LockedItem(item, t))
        /\ UNCHANGED <<pc, current_time, retries, calls, result, overstayed, opsVars>>
        /\ IF fails = "get_state"
           THEN \* get_state raises (line 140): nothing but the lock is touched
                /\ ev' = NoInputs
                /\ decision' = NotEvaluated
                /\ UNCHANGED <<record, table, trail>>
                /\ run' = seen
           ELSE /\ ev' = [d |-> d, metrics |-> metrics, history |-> history,
                          custom_metrics |-> NoCustom]
                /\ decision' = reactive
                /\ table' = stored_table
                /\ record' =
                    [node_count |-> IF executed THEN NewNodeCount(current_nodes, action)
                                    ELSE record.node_count,
                     last_scale_time |-> IF executed THEN t ELSE record.last_scale_time,
                     metrics_history |-> UpdateMetricsHistory(history, metrics)]
                /\ run' =
                    IF reactive.action = "raise" THEN seen
                    ELSE [seen EXCEPT
                            !.status = IF ~scales THEN "none"
                                       ELSE IF executed THEN "scaled" ELSE "raised",
                            !.consulted = consulted,
                            !.prediction = prediction,
                            !.recommended_nodes =
                                IF prediction.present /\ ShouldProactiveScaleUp(prediction)
                                THEN CalculateRecommendedNodes(prediction, current_nodes)
                                ELSE 0,
                            !.action = action,
                            !.called = scales]
                /\ trail' =
                    IF ~executed THEN trail
                    ELSE [last_scale_up |->
                              IF action.action = "scale_up" /\ KindOf(action) # "minimum"
                              THEN t ELSE trail.last_scale_up,
                          last_scaling |-> t,
                          last_predictive |->
                              IF KindOf(action) = "predictive" THEN t ELSE trail.last_predictive]

InitLoop ==
    /\ now = LoopStart
    /\ item \in {NoItem, ReleasedEarlier}
    /\ pc = [p \in Procs |-> "idle"]
    /\ current_time = [p \in Procs |-> Missing]
    /\ retries = [p \in Procs |-> 0]
    /\ calls = [p \in Procs |-> <<>>]
    /\ result = [p \in Procs |-> NoResult]
    /\ overstayed = FALSE
    /\ ev = NoInputs
    /\ decision = NotEvaluated
    /\ record \in LoopRecords
    /\ table \in LoopTables
    /\ run = NotRun
    /\ trail = NoTrail
    /\ OpsIdle

NextLoop == ControlLoop

SpecLoop == InitLoop /\ [][NextLoop]_vars

\* ------------------------------------------------------------------------
\* Specification of the recommendation: calculate_recommended_nodes and the
\* lines of lambda_handler that use it, once per prediction and node count
\* ------------------------------------------------------------------------
\* predictions with the CPU forecast on both sides of the target utilization
\* and of the threshold, and far above them
ForecastPredictions ==
    {[present |-> TRUE, predicted_cpu |-> c, predicted_memory |-> m,
      predicted_pending_pods |-> p, confidence |-> k] :
        c \in {Rat(0, 1), Rat(59, 1), Rat(60, 1), Rat(70, 1), Rat(141, 2),
               Rat(90, 1), Rat(200, 1), Rat(1000, 1)},
        m \in {Rat(147, 2), Rat(74, 1)}, p \in {0, 1},
        k \in {MIN_CONFIDENCE_TENTHS - 1, MIN_CONFIDENCE_TENTHS, 10}}

\* lines 214-233 with a reactive decision of 'none' inside the lead window
RecommendCall ==
    /\ run.status = "idle"
    /\ run' = [run EXCEPT
                !.status = "recommended",
                !.recommended_nodes =
                    CalculateRecommendedNodes(run.prediction, run.metric_node_count),
                !.action = ProactiveAction(Decision("none", 0, <<"Stable">>), run.prediction,
                                           run.metric_node_count,
                                           LoopStart + LOOP_PERIOD)]
    /\ UNCHANGED <<lockVars, evalVars, record, table, trail, opsVars>>

InitForecast ==
    /\ LockInit
    /\ ev = NoInputs
    /\ decision = NotEvaluated
    /\ record = FreshRecord
    /\ table = EmptyTable
    /\ trail = NoTrail
    /\ run \in {[NotRun EXCEPT !.prediction = p, !.metric_node_count = c] :
                    p \in ForecastPredictions, c \in 0..(MAX_NODES + 1)}
    /\ OpsIdle

NextForecast == RecommendCall

SpecForecast == InitForecast /\ [][NextForecast]_vars

\* ------------------------------------------------------------------------
\* Spot helper (src/lambda/spot_instance_helper.py)
\* ------------------------------------------------------------------------
\* the largest power of two below x, for x > 1
RECURSIVE PowerOfTwoBelow(_, _)
PowerOfTwoBelow(x, p) == IF 2 * p < x THEN PowerOfTwoBelow(x, 2 * p) ELSE p

\* line 38: int(desired_nodes * 0.70) in double precision. The double 0.70 is
\* 0.7 - 0.4 / 2^53, so the product of a multiple of ten 10 * m is
\* 7 * m - 4 * m / 2^53 before rounding; it rounds to 7 * m unless 4 * m
\* exceeds the largest power of two below 7 * m (half the spacing of the
\* doubles there, times 2^53), and then int() truncates it to 7 * m - 1.
\* Other products are not within rounding distance of an integer.
RECURSIVE IdealTotalSpot(_)
IdealTotalSpot(desired_nodes) ==
    IF desired_nodes < 0 THEN -IdealTotalSpot(-desired_nodes)
    ELSE IF desired_nodes = 0 \/ desired_nodes % 10 # 0
         THEN (TARGET_SPOT_TENTHS * desired_nodes) \div 10
         ELSE LET m == desired_nodes \div 10
                  exact == TARGET_SPOT_TENTHS * m
              IN  IF 4 * m > PowerOfTwoBelow(exact, 1) THEN exact - 1 ELSE exact

\* a variant of lines 28-64 without lines 54-56: what the ideal totals do not
\* ask for is not added as spot
CalculateSpotOndemandMixNoTopUp(current_nodes, desired_nodes, existing_spot_count, existing_ondemand_count) ==
    LET nodes_to_add == desired_nodes - current_nodes
        ideal_total_spot == IdealTotalSpot(desired_nodes)
        ideal_total_ondemand == desired_nodes - ideal_total_spot
        spot_to_add == Max(0, ideal_total_spot - existing_spot_count)
        ondemand_to_add == Max(0, ideal_total_ondemand - existing_ondemand_count)
        total_to_add == spot_to_add + ondemand_to_add
    IN  IF nodes_to_add <= 0 THEN [spot |-> 0, ondemand |-> 0]
        ELSE IF total_to_add > nodes_to_add
             THEN IF spot_to_add > nodes_to_add
                  THEN [spot |-> nodes_to_add, ondemand |-> 0]
                  ELSE [spot |-> spot_to_add, ondemand |-> nodes_to_add - spot_to_add]
             ELSE [spot |-> spot_to_add, ondemand |-> ondemand_to_add]

\* lines 28-64: how many spot and on-demand instances to launch
CalculateSpotOndemandMix(current_nodes, desired_nodes, existing_spot_count, existing_ondemand_count) ==
    LET nodes_to_add == desired_nodes - current_nodes
        ideal_total_spot == IdealTotalSpot(desired_nodes)
        ideal_total_ondemand == desired_nodes - ideal_total_spot
        spot_to_add == Max(0, ideal_total_spot - existing_spot_count)
        ondemand_to_add == Max(0, ideal_total_ondemand - existing_ondemand_count)
        total_to_add == spot_to_add + ondemand_to_add
    IN  IF nodes_to_add <= 0 THEN [spot |-> 0, ondemand |-> 0]
        ELSE IF total_to_add > nodes_to_add
             THEN IF spot_to_add > nodes_to_add
                  THEN [spot |-> nodes_to_add, ondemand |-> 0]
                  ELSE [spot |-> spot_to_add, ondemand |-> nodes_to_add - spot_to_add]
             ELSE IF total_to_add < nodes_to_add
                  THEN [spot |-> spot_to_add + (nodes_to_add - total_to_add),
                        ondemand |-> ondemand_to_add]
                  ELSE [spot |-> spot_to_add, ondemand |-> ondemand_to_add]

\* ------------------------------------------------------------------------
\* Specification of the launch split: one calculate_spot_ondemand_mix call
\* per combination of arguments
\* ------------------------------------------------------------------------
\* current_nodes is an argument of its own: the function does not require it
\* to be the sum of the two existing counts
MixInputs ==
    {[NoMix EXCEPT !.current_nodes = c, !.desired_nodes = d,
                   !.existing_spot_count = s, !.existing_ondemand_count = o] :
        c \in 0..MaxMixNodes, d \in (-1)..(MaxMixNodes + 2),
        s \in 0..MaxMixNodes, o \in 0..MaxMixNodes}

MixCall ==
    /\ mix.status = "idle"
    /\ LET r == CalculateSpotOndemandMix(mix.current_nodes, mix.desired_nodes,
                                         mix.existing_spot_count,
                                         mix.existing_ondemand_count)
       IN  mix' = [mix EXCEPT !.status = "returned", !.spot = r.spot,
                              !.ondemand = r.ondemand]
    /\ UNCHANGED <<lockVars, evalVars, loopVars, fleet, up, nodeVars, hnd, mgrVars>>

InitMix ==
    /\ LockInit
    /\ ev = NoInputs
    /\ decision = NotEvaluated
    /\ LoopIdle
    /\ mix \in MixInputs
    /\ fleet = EmptyFleet
    /\ up = NoScaleUp
    /\ NodesIdle
    /\ hnd = NotInvoked
    /\ MgrIdle

NextMix == MixCall

SpecMix == InitMix /\ [][NextMix]_vars

\* ------------------------------------------------------------------------
\* Specification of repeated scale-ups: the split is applied to a fleet that
\* starts empty and every instance it asks for is launched
\* ------------------------------------------------------------------------
\* ec2_manager.py lines 97-111 call the split with the fleet's counts, and
\* the fleet grows by what was asked for
AddNodes ==
    \E nodes_to_add \in 1..MaxBatch :
        LET current_total == fleet.spot + fleet.ondemand
            r == CalculateSpotOndemandMix(current_total, current_total + nodes_to_add,
                                          fleet.spot, fleet.ondemand)
        IN  /\ current_total + nodes_to_add <= MaxConverge
            /\ mix' = [status |-> "returned", current_nodes |-> current_total,
                       desired_nodes |-> current_total + nodes_to_add,
                       existing_spot_count |-> fleet.spot,
                       existing_ondemand_count |-> fleet.ondemand,
                       spot |-> r.spot, ondemand |-> r.ondemand]
            /\ fleet' = [fleet EXCEPT !.spot = @ + r.spot, !.ondemand = @ + r.ondemand]
            /\ UNCHANGED <<lockVars, evalVars, loopVars, up, nodeVars, hnd, mgrVars>>

InitConverge ==
    /\ LockInit
    /\ ev = NoInputs
    /\ decision = NotEvaluated
    /\ LoopIdle
    /\ OpsIdle

NextConverge == AddNodes

SpecConverge == InitConverge /\ [][NextConverge]_vars

\* ------------------------------------------------------------------------
\* Specification of EC2Manager.scale_up (src/lambda/ec2_manager.py): calls
\* with launches that succeed or fail, on a fleet that starts empty
\* ------------------------------------------------------------------------
\* _launch_instances (lines 241-283) runs one instance at a time and tags
\* them at the end: it returns count ids, or raises with 0..count instances
\* already running (count of them when only the tagging failed)
LaunchOutcomes(count) ==
    {[failed |-> FALSE, launched |-> count]} \cup
    {[failed |-> TRUE, launched |-> j] : j \in 0..count}

\* a variant of lines 126-129 that gives up the spot part without asking for
\* more on-demand instances
SpotFallbackDropsShortfall(spot_count, ondemand_count, spot_failed) ==
    IF spot_count > 0 /\ spot_failed
    THEN [spot_count |-> 0, ondemand_count |-> ondemand_count]
    ELSE [spot_count |-> spot_count, ondemand_count |-> ondemand_count]

\* lines 117-129: the counts after the spot launch; a failed spot launch moves
\* its count to the on-demand request
SpotFallback(spot_count, ondemand_count, spot_failed) ==
    IF spot_count > 0 /\ spot_failed
    THEN [spot_count |-> 0, ondemand_count |-> ondemand_count + spot_count]
    ELSE [spot_count |-> spot_count, ondemand_count |-> ondemand_count]

\* lines 87-162. The split is asked of calculate_spot_ondemand_mix with the
\* fleet's counts; self.spot_percentage is not read. Launched instances are
\* taken to be running when the next call lists the workers.
ScaleUp ==
    \E nodes_to_add \in 1..MaxAdd, listing_fails \in BOOLEAN :
        LET current_total == fleet.spot + fleet.ondemand
            asked == CalculateSpotOndemandMix(current_total, current_total + nodes_to_add,
                                              fleet.spot, fleet.ondemand)
        IN  /\ current_total + nodes_to_add <= MaxFleet
            /\ IF listing_fails
               THEN \* line 97: _get_worker_instances raises before anything is launched
                    /\ up' = [NoScaleUp EXCEPT !.status = "raised",
                                               !.nodes_to_add = nodes_to_add,
                                               !.before = fleet]
                    /\ fleet' = fleet
               ELSE \E spot_launch \in LaunchOutcomes(asked.spot) :
                        LET counts == SpotFallback(asked.spot, asked.ondemand,
                                                   spot_launch.failed)
                        IN  \E ondemand_launch \in LaunchOutcomes(counts.ondemand_count) :
                                LET raised == counts.ondemand_count > 0
                                              /\ ondemand_launch.failed
                                    ids == (IF spot_launch.failed THEN 0
                                            ELSE spot_launch.launched)
                                           + ondemand_launch.launched
                                IN  /\ fleet' = [fleet EXCEPT
                                                    !.spot = @ + spot_launch.launched,
                                                    !.ondemand = @ + ondemand_launch.launched]
                                    /\ up' = [status |-> IF raised THEN "raised"
                                                         ELSE "returned",
                                              nodes_to_add |-> nodes_to_add,
                                              before |-> fleet,
                                              spot_failed |-> asked.spot > 0
                                                              /\ spot_launch.failed,
                                              ondemand_failed |-> raised,
                                              success |-> ~raised,
                                              spot_count |->
                                                  IF raised THEN 0 ELSE counts.spot_count,
                                              ondemand_count |->
                                                  IF raised THEN 0 ELSE counts.ondemand_count,
                                              instance_ids |-> IF raised THEN 0 ELSE ids]
            /\ UNCHANGED <<lockVars, evalVars, loopVars, mix, nodeVars, hnd, mgrVars>>

\* the managers of the tests: spot_percentage 0 and 70
FleetConfigurations == {[EmptyFleet EXCEPT !.spot_percentage = q] :
                            q \in {0, DEFAULT_SPOT_PERCENTAGE}}

InitFleet ==
    /\ LockInit
    /\ ev = NoInputs
    /\ decision = NotEvaluated
    /\ LoopIdle
    /\ mix = NoMix
    /\ fleet \in FleetConfigurations
    /\ up = NoScaleUp
    /\ NodesIdle
    /\ hnd = NotInvoked
    /\ MgrIdle

NextFleet == ScaleUp

SpecFleet == InitFleet /\ [][NextFleet]_vars

\* ------------------------------------------------------------------------
\* Draining a node (src/lambda/ec2_manager.py, _drain_node and its helpers)
\* ------------------------------------------------------------------------
\* a pod on the node: its controller, whether it is a mirror pod, and how many
\* pods of its stateful set are Running and Ready on other nodes
Pod(name, owner, mirror, ready_elsewhere) ==
    [name |-> name, owner |-> owner, mirror |-> mirror, ready_elsewhere |-> ready_elsewhere]

\* no call to the orchestration API fails
NoFaults ==
    [api_error |-> "none", unverifiable |-> {}, refused |-> {}, stuck |-> FALSE,
     uncordon_error |-> FALSE]

\* lines 523-549: the pods to evict are those that are neither DaemonSet pods
\* nor mirror pods
PodsToDelete(pods) == {p \in pods : p.owner # "DaemonSet" /\ ~p.mirror}

\* lines 536-537: the pods owned by a stateful set
StatefulsetPods(pods) == {p \in pods : p.owner = "StatefulSet"}

\* lines 655-722: TRUE when another replica is Running and Ready on a different
\* node, and also when looking it up raised
VerifyStatefulsetReplicas(pod, unverifiable) ==
    IF pod \in unverifiable THEN TRUE ELSE pod.ready_elsewhere > 0

\* lines 734-750: the node's unschedulable flag after _uncordon_node, which
\* loads the in-cluster config only and swallows every error
Uncordon(config, cordoned, uncordon_error) ==
    IF config = "incluster" /\ ~uncordon_error THEN FALSE ELSE cordoned

\* lines 490-642: the result of _drain_node and the node it leaves behind
DrainNode(k, f) ==
    LET sts_pods == StatefulsetPods(k.pods)
        unsafe == {p \in sts_pods : ~VerifyStatefulsetReplicas(p, f.unverifiable)}
        pods_to_delete == PodsToDelete(k.pods)
        evicted == pods_to_delete \ f.refused
        restored(c) == Uncordon(k.config, c, f.uncordon_error)
        outcome(returned, gate, gone, cordoned) ==
            [returned |-> returned, gate |-> gate, evicted |-> gone, cordoned |-> cordoned]
    IN  IF k.config = "none" THEN outcome(TRUE, "not_reached", {}, k.cordoned)
        ELSE IF f.api_error = "cordon"
             THEN outcome(FALSE, "not_reached", {}, restored(k.cordoned))
        ELSE IF ~k.registered THEN outcome(TRUE, "not_reached", {}, k.cordoned)
        ELSE IF f.api_error = "list" THEN outcome(FALSE, "not_reached", {}, restored(TRUE))
        ELSE IF unsafe # {} THEN outcome(FALSE, "blocked", {}, restored(TRUE))
        ELSE IF f.api_error = "wait" THEN outcome(FALSE, "passed", evicted, restored(TRUE))
        ELSE IF pods_to_delete = {} \/ (f.refused = {} /\ ~f.stuck)
             THEN outcome(TRUE, "passed", evicted, TRUE)
        ELSE outcome(FALSE, "passed", evicted, restored(TRUE))

\* ------------------------------------------------------------------------
\* Specification of the drain: one _drain_node call per node and per outcome
\* of the API calls it makes
\* ------------------------------------------------------------------------
\* two stateful-set pods, one without and one with a ready replica elsewhere,
\* a deployment's pod, a DaemonSet pod and a mirror pod
PodUniverse ==
    {Pod("db-0", "StatefulSet", FALSE, 0), Pod("cache-0", "StatefulSet", FALSE, 1),
     Pod("web", "ReplicaSet", FALSE, 0), Pod("agent", "DaemonSet", FALSE, 0),
     Pod("etcd", "none", TRUE, 0)}

DrainFaults(pods) ==
    {[api_error |-> e, unverifiable |-> u, refused |-> r, stuck |-> st,
      uncordon_error |-> ue] :
        e \in {"none", "cordon", "list", "wait"},
        u \in SUBSET StatefulsetPods(pods), r \in SUBSET PodsToDelete(pods),
        st \in BOOLEAN, ue \in BOOLEAN}

\* scale_down drains with the default timeout
Drain ==
    /\ drain.status = "idle"
    /\ \E f \in DrainFaults(kube.pods) :
        LET d == DrainNode(kube, f)
        IN  /\ drain' = [status |-> "returned", timeout |-> DRAIN_TIMEOUT,
                         returned |-> d.returned, gate |-> d.gate,
                         evicted |-> d.evicted, before |-> kube]
            /\ kube' = [kube EXCEPT !.cordoned = d.cordoned,
                                    !.pods = IF f.stuck THEN @ ELSE @ \ d.evicted]
    /\ UNCHANGED <<lockVars, evalVars, loopVars, mix, fleet, up, sel, hnd, mgrVars>>

InitDrain ==
    /\ LockInit
    /\ ev = NoInputs
    /\ decision = NotEvaluated
    /\ LoopIdle
    /\ mix = NoMix
    /\ fleet = EmptyFleet
    /\ up = NoScaleUp
    /\ kube \in {[config |-> c, registered |-> TRUE, cordoned |-> FALSE, pods |-> ps] :
                    c \in {"incluster", "file", "none"}, ps \in SUBSET PodUniverse}
            \cup {[QuietNode EXCEPT !.config = c, !.registered = FALSE] :
                    c \in {"incluster", "file", "none"}}
    /\ drain = NoDrain
    /\ sel = NoSelection
    /\ hnd = NotInvoked
    /\ MgrIdle

NextDrain == Drain

SpecDrain == InitDrain /\ [][NextDrain]_vars

\* ------------------------------------------------------------------------
\* Choosing the instances to terminate (src/lambda/ec2_manager.py,
\* _select_instances_for_termination and _get_node_pod_info)
\* ------------------------------------------------------------------------
\* a worker instance and what runs on its node: a system pod of kube-system
\* that is neither a DaemonSet nor a mirror pod (critical), a stateful-set
\* pod (sts), the pod of a single-replica ReplicaSet (sole), and other pods
Instance(spot, critical, sts, sole, others) ==
    [spot |-> spot, critical |-> critical, sts |-> sts, sole |-> sole, others |-> others]

\* lines 358-380: pods of kube-system are skipped, the others are counted, and
\* a StatefulSet owner sets has_sts
NodePodInfo(inst) ==
    [count |-> (IF inst.sts THEN 1 ELSE 0) + (IF inst.sole THEN 1 ELSE 0) + inst.others,
     has_sts |-> inst.sts]

\* a variant of lines 328-332 that leaves the lifecycle out of the key
GetSortKeyWithoutLifecycle(inst) ==
    LET info == NodePodInfo(inst)
    IN  (IF info.has_sts THEN STS_WEIGHT ELSE 0) + info.count

\* lines 320-332: the sort key of an instance
GetSortKey(inst) ==
    LET info == NodePodInfo(inst)
    IN  (IF info.has_sts THEN STS_WEIGHT ELSE 0)
        + (IF inst.spot THEN 0 ELSE LIFECYCLE_WEIGHT)
        + info.count

\* line 334: the place of instances[i] after sorted(), which is stable
SortedPosition(instances, i) ==
    1 + Cardinality({j \in DOMAIN instances :
                        \/ GetSortKey(instances[j]) < GetSortKey(instances[i])
                        \/ GetSortKey(instances[j]) = GetSortKey(instances[i]) /\ j < i})

\* lines 334-335: the indices of the first count instances in sorted order
SelectInstancesForTermination(instances, count) ==
    [k \in 1..Min(count, Len(instances)) |->
        CHOOSE i \in DOMAIN instances : SortedPosition(instances, i) = k]

\* ------------------------------------------------------------------------
\* Specification of the selection: one call per list of instances
\* ------------------------------------------------------------------------
\* spot and on-demand instances whose node carries at most one of the three
\* kinds of workload that make a removal risky, with and without other pods
InstanceKinds ==
    {Instance(sp, risk = "critical", risk = "sts", risk = "sole", ot) :
        sp \in BOOLEAN, risk \in {"none", "critical", "sts", "sole"}, ot \in {0, 2}}

SelectionInputs ==
    {[NoSelection EXCEPT !.instances = xs, !.count = c] :
        xs \in UNION {[1..n -> InstanceKinds] : n \in 2..MaxInstances},
        c \in 1..(MaxInstances - 1)}

SelectCall ==
    /\ sel.status = "idle"
    /\ sel' = [sel EXCEPT !.status = "returned",
                          !.selected = SelectInstancesForTermination(sel.instances,
                                                                     sel.count)]
    /\ UNCHANGED <<lockVars, evalVars, loopVars, mix, fleet, up, kube, drain, hnd, mgrVars>>

InitSelect ==
    /\ LockInit
    /\ ev = NoInputs
    /\ decision = NotEvaluated
    /\ LoopIdle
    /\ mix = NoMix
    /\ fleet = EmptyFleet
    /\ up = NoScaleUp
    /\ kube = QuietNode
    /\ drain = NoDrain
    /\ sel \in SelectionInputs
    /\ hnd = NotInvoked
    /\ MgrIdle

NextSelect == SelectCall

SpecSelect == InitSelect /\ [][NextSelect]_vars

\* ------------------------------------------------------------------------
\* Removing workers (src/lambda/ec2_manager.py, scale_down and _delete_node)
\* ------------------------------------------------------------------------
\* a running worker: its lifecycle, whether _get_node_name_from_instance finds
\* its node name, and the pods on its node
Worker(spot, resolved, pods) == [spot |-> spot, resolved |-> resolved, pods |-> pods]

\* the worker as _select_instances_for_termination sees it: without a node
\* name, or without a kube config, node_info has no entry for it (line 322)
InstanceOf(w, config) ==
    IF ~w.resolved \/ config = "none"
    THEN Instance(w.spot, FALSE, FALSE, FALSE, 0)
    ELSE Instance(w.spot, FALSE, StatefulsetPods(w.pods) # {}, FALSE,
                  Cardinality(w.pods \ StatefulsetPods(w.pods)))

\* the worker's node as _drain_node meets it
NodeOf(w, config) == [QuietNode EXCEPT !.config = config, !.pods = w.pods]

\* a variant of lines 181-183 that removes as many nodes as were asked for
RemovableCountUncapped(workers, nodes_to_remove) == Min(workers, nodes_to_remove)

\* lines 181-183: at least one worker is kept
RemovableCount(workers, nodes_to_remove) ==
    IF workers <= nodes_to_remove THEN Max(0, workers - 1) ELSE nodes_to_remove

\* a variant of lines 198-204 that terminates whatever the drain returned
ProceedsToTerminateAnyway(resolved, drained) == TRUE

\* lines 198-204: the instance is terminated unless its node name resolved and
\* the drain of the node returned False
ProceedsToTerminate(resolved, drained) == ~resolved \/ drained

Event(op, i, ok) == [op |-> op, i |-> i, ok |-> ok]

\* lines 196-214: the loop over the selected instances, from the k-th on.
\* faults[k] are the faults the k-th drain meets, term_fail the place of the
\* instance whose terminate_instances call raises (0: none does)
RECURSIVE TerminateSelected(_, _, _, _, _, _, _)
TerminateSelected(workers, config, selected, k, faults, term_fail, acc) ==
    IF k > Len(selected) THEN [acc EXCEPT !.outcome = "success"]
    ELSE
    LET i == selected[k]
        w == workers[i]
        d == DrainNode(NodeOf(w, config), faults[k])
        after_drain ==
            IF w.resolved
            THEN [acc EXCEPT !.events = Append(@, Event("drain_node", i, d.returned)),
                             !.cordoned = IF d.cordoned THEN @ \cup {i} ELSE @]
            ELSE acc
    IN  IF ~ProceedsToTerminate(w.resolved, d.returned)
        THEN TerminateSelected(workers, config, selected, k + 1, faults, term_fail,
                               after_drain)
        ELSE IF term_fail = k
        THEN [after_drain EXCEPT
                !.events = Append(@, Event("terminate_instances", i, FALSE)),
                !.outcome = "raise"]
        ELSE TerminateSelected(
                workers, config, selected, k + 1, faults, term_fail,
                [after_drain EXCEPT
                    !.events = @ \o <<Event("terminate_instances", i, TRUE)>>
                               \o (IF w.resolved THEN <<Event("delete_node", i, TRUE)>>
                                   ELSE <<>>),
                    !.terminated = Append(@, i)])

\* lines 177-225: scale_down
ScaleDownResult(call, describe_error, faults, term_fail) ==
    LET count == RemovableCount(Len(call.workers), call.nodes_to_remove)
        instances == [i \in DOMAIN call.workers |-> InstanceOf(call.workers[i], call.config)]
        selected == SelectInstancesForTermination(instances, count)
    IN  IF describe_error THEN [call EXCEPT !.status = "returned", !.outcome = "raise"]
        ELSE IF count = 0 THEN [call EXCEPT !.status = "returned", !.outcome = "success"]
        ELSE TerminateSelected(call.workers, call.config, selected, 1, faults, term_fail,
                               [call EXCEPT !.status = "returned", !.selected = selected])

\* ------------------------------------------------------------------------
\* Specification of scale_down: one call per fleet, per count and per outcome
\* of the calls it makes
\* ------------------------------------------------------------------------
\* spot and on-demand workers: with a deployment's pod, without a node name,
\* with the last replica of a stateful set, empty, with a stateful-set pod
\* that has a replica elsewhere
WorkerKinds ==
    {Worker(TRUE, TRUE, {Pod("web", "ReplicaSet", FALSE, 0)}),
     Worker(TRUE, FALSE, {}),
     Worker(FALSE, TRUE, {Pod("db-0", "StatefulSet", FALSE, 0)}),
     Worker(FALSE, TRUE, {}),
     Worker(TRUE, TRUE, {Pod("cache-0", "StatefulSet", FALSE, 1),
                         Pod("web", "ReplicaSet", FALSE, 0)}),
     Worker(FALSE, TRUE, {Pod("web", "ReplicaSet", FALSE, 0)})}

\* the drain meets no fault, or its pods are still there at the timeout, or
\* listing the node's pods raises
ScaleDownFaults ==
    {NoFaults, [NoFaults EXCEPT !.stuck = TRUE], [NoFaults EXCEPT !.api_error = "list"]}

ScaleDownCalls ==
    {[NoScaleDown EXCEPT !.workers = ws, !.config = c, !.nodes_to_remove = n] :
        ws \in UNION {[1..m -> WorkerKinds] : m \in 0..MaxWorkers},
        c \in {"incluster", "file", "none"}, n \in 1..(MaxWorkers + 1)}

ScaleDown ==
    /\ down.status = "idle"
    /\ LET count == RemovableCount(Len(down.workers), down.nodes_to_remove)
       IN  \E describe_error \in BOOLEAN,
              faults \in [1..count -> ScaleDownFaults], term_fail \in 0..count :
            /\ describe_error => (term_fail = 0 /\ \A k \in 1..count : faults[k] = NoFaults)
            /\ down' = ScaleDownResult(down, describe_error, faults, term_fail)
    /\ UNCHANGED <<lockVars, evalVars, loopVars, mix, fleet, up, nodeVars, hnd, appended, poll, az>>

InitScaleDown ==
    /\ LockInit
    /\ ev = NoInputs
    /\ decision = NotEvaluated
    /\ LoopIdle
    /\ mix = NoMix
    /\ fleet = EmptyFleet
    /\ up = NoScaleUp
    /\ NodesIdle
    /\ hnd = NotInvoked
    /\ down \in ScaleDownCalls
    /\ appended = NoAppends
    /\ poll = NoPoll
    /\ az = NoPlacement

NextScaleDown == ScaleDown

SpecScaleDown == InitScaleDown /\ [][NextScaleDown]_vars

\* ------------------------------------------------------------------------
\* The sliding window of snapshots (src/lambda/state_manager.py,
\* update_metrics_history) with the outcomes of its three calls to the table
\* ------------------------------------------------------------------------
\* lines 148-184: the stored metrics_history after the call.  The append
\* (line 160) and the trim (lines 170-181) are two writes with a read between
\* them; a ClientError of any of the three is swallowed (lines 185-187), and
\* the read (get_item without ConsistentRead) may show the list as it was
\* before the append
UpdateMetricsHistoryWith(history, metrics, fault) ==
    LET snapshot == Snap(metrics.cpu_usage, metrics.memory_usage, metrics.pending_pods)
    IN  IF fault = "append_error" THEN history
        ELSE IF fault = "trim_error" THEN Append(history, snapshot)
        ELSE IF fault = "stale_read"
             THEN (IF Len(history) > MaxHistory THEN LastN(history, MaxHistory)
                   ELSE Append(history, snapshot))
        ELSE UpdateMetricsHistory(history, metrics)

HistoryFaults == {"none", "append_error", "trim_error", "stale_read"}

\* one update_metrics_history call of an invocation that holds the lock
UpdateHistory ==
    /\ Len(appended) < MaxAppends
    /\ \E metrics \in LoopReadings, fault \in HistoryFaults :
        /\ record' = [record EXCEPT
                        !.metrics_history = UpdateMetricsHistoryWith(@, metrics, fault)]
        /\ appended' = IF fault = "append_error" THEN appended
                       ELSE Append(appended, Snap(metrics.cpu_usage, metrics.memory_usage,
                                                  metrics.pending_pods))
    /\ UNCHANGED <<lockVars, evalVars, table, run, trail, mix, fleet, up, nodeVars, hnd, down, poll, az>>

InitHistory ==
    /\ LockInit
    /\ ev = NoInputs
    /\ decision = NotEvaluated
    /\ LoopIdle
    /\ OpsIdle

NextHistory == UpdateHistory

SpecHistory == InitHistory /\ [][NextHistory]_vars

\* ------------------------------------------------------------------------
\* The polling loops (src/lambda/ec2_manager.py): _wait_for_nodes_ready,
\* lines 432-467, and the wait of _drain_node, lines 602-628
\* ------------------------------------------------------------------------
\* a variant of the loops whose clock stands still: nothing sleeps and the
\* calls take no time
ElapsedAfterSleepStoppedClock(elapsed, call_time, interval) == elapsed

\* time.time() - start at the next test of the loop: the call to the API and
\* the sleep have passed
ElapsedAfterSleep(elapsed, call_time, interval) == elapsed + call_time + interval

\* the new nodes whose names resolved (lines 424-428)
PollNodes == {"worker-a", "worker-b"}

\* the pods the drain evicted and waits for
PollPods == 2

CallTimes == 0..MaxCallTime

\* lines 141-158: what scale_up returns after the wait returned
ScaleUpAfterWait(ready_nodes) == [success |-> TRUE, ready_nodes |-> ready_nodes]

\* line 146: scale_up starts the wait for the instances it launched; without
\* a kube config the wait returns [] at once (lines 413-415)
StartReadyWait ==
    /\ poll.status = "idle"
    /\ \E expected \in SUBSET PollNodes, configured \in BOOLEAN :
        poll' = IF configured
                THEN [NoPoll EXCEPT !.status = "polling", !.loop = "ready",
                                    !.timeout = READY_TIMEOUT,
                                    !.interval = READY_POLL_INTERVAL,
                                    !.expected = expected]
                ELSE [NoPoll EXCEPT !.status = "returned", !.loop = "ready",
                                    !.timeout = READY_TIMEOUT,
                                    !.interval = READY_POLL_INTERVAL,
                                    !.exit = "no_config",
                                    !.scale_up = ScaleUpAfterWait({})]
    /\ UNCHANGED <<lockVars, evalVars, loopVars, mix, fleet, up, nodeVars, hnd, down,
                   appended, az>>

\* lines 602-604: _drain_node starts its wait after the evictions, with the
\* timeout of scale_down or of the spot interruption path
StartDrainWait ==
    /\ poll.status = "idle"
    /\ \E timeout \in {DRAIN_TIMEOUT, SPOT_DRAIN_TIMEOUT}, remaining \in 0..PollPods :
        poll' = [NoPoll EXCEPT !.status = "polling", !.loop = "drain",
                               !.timeout = timeout, !.interval = DRAIN_POLL_INTERVAL,
                               !.remaining = remaining]
    /\ UNCHANGED <<lockVars, evalVars, loopVars, mix, fleet, up, nodeVars, hnd, down,
                   appended, az>>

\* lines 433-467: one turn of the node-ready loop.  The test of the elapsed
\* time, list_node, then a return when every expected node is Ready, or a
\* sleep; an ApiException sleeps too, any other exception returns []
PollReady ==
    /\ poll.status = "polling"
    /\ poll.loop = "ready"
    /\ IF poll.elapsed >= poll.timeout
       THEN poll' = [poll EXCEPT !.status = "returned", !.exit = "timeout",
                                 !.scale_up = ScaleUpAfterWait(poll.ready)]
       ELSE \E outcome \in {"listed", "api_error", "error"},
               newly \in SUBSET (poll.expected \ poll.ready), call_time \in CallTimes :
            LET ready == IF outcome = "listed" THEN poll.ready \cup newly ELSE poll.ready
            IN  poll' =
                  IF outcome = "error"
                  THEN [poll EXCEPT !.status = "returned", !.exit = "error",
                                    !.polls = @ + 1,
                                    !.scale_up = ScaleUpAfterWait({})]
                  ELSE IF outcome = "listed" /\ ready = poll.expected
                  THEN [poll EXCEPT !.status = "returned", !.exit = "condition",
                                    !.polls = @ + 1, !.ready = ready,
                                    !.scale_up = ScaleUpAfterWait(ready)]
                  ELSE [poll EXCEPT !.polls = @ + 1, !.ready = ready, !.last = outcome,
                                    !.elapsed = ElapsedAfterSleep(@, call_time,
                                                                  poll.interval)]
    /\ UNCHANGED <<lockVars, evalVars, loopVars, mix, fleet, up, nodeVars, hnd, down,
                   appended, az>>

\* lines 604-628: one turn of the drain's loop.  The test of the elapsed time,
\* the list of the node's pods, then True when none is left, or a sleep; at
\* the timeout the node is uncordoned and False returned, as on an exception
\* (lines 633-642)
PollDrain ==
    /\ poll.status = "polling"
    /\ poll.loop = "drain"
    /\ IF poll.elapsed >= poll.timeout
       THEN poll' = [poll EXCEPT !.status = "returned", !.exit = "timeout",
                                 !.returned = FALSE]
       ELSE \E outcome \in {"listed", "error"}, remaining \in 0..poll.remaining,
               call_time \in CallTimes :
            poll' =
              IF outcome = "error"
              THEN [poll EXCEPT !.status = "returned", !.exit = "error",
                                !.polls = @ + 1, !.returned = FALSE]
              ELSE IF remaining = 0
              THEN [poll EXCEPT !.status = "returned", !.exit = "condition",
                                !.polls = @ + 1, !.remaining = 0, !.returned = TRUE]
              ELSE [poll EXCEPT !.polls = @ + 1, !.remaining = remaining,
                                !.last = outcome,
                                !.elapsed = ElapsedAfterSleep(@, call_time, poll.interval)]
    /\ UNCHANGED <<lockVars, evalVars, loopVars, mix, fleet, up, nodeVars, hnd, down,
                   appended, az>>

InitPoll ==
    /\ LockInit
    /\ ev = NoInputs
    /\ decision = NotEvaluated
    /\ LoopIdle
    /\ OpsIdle

NextPoll ==
    \/ StartReadyWait
    \/ StartDrainWait
    \/ PollReady
    \/ PollDrain

\* the loops run in the invocation's only thread, whose sleeps and calls
\* return: a turn that can be taken is taken
SpecPoll == InitPoll /\ [][NextPoll]_vars /\ WF_vars(NextPoll)

\* ------------------------------------------------------------------------
\* Placing new instances (src/lambda/multi_az_helper.py and _launch_instances
\* of src/lambda/ec2_manager.py)
\* ------------------------------------------------------------------------
\* self.available_subnets, in the order _get_cluster_subnets returned them
Subnets == <<"subnet-az1", "subnet-az2">>

\* multi_az_helper.py lines 19-30: min() over the counts returns the first
\* subnet, in the order of available_subnets, that holds the fewest instances
SelectSubnetForNewInstance(counts) ==
    CHOOSE s \in DOMAIN counts :
        \A t \in DOMAIN counts :
            counts[s] < counts[t] \/ (counts[s] = counts[t] /\ s <= t)

\* ec2_manager.py lines 252-267: count instances are launched one at a time.
\* listed are the per-subnet counts of existing_instances, which the call got
\* from _get_worker_instances and extends with each launch; actual are the
\* counts of all the instances there are, running or pending
RECURSIVE LaunchInstances(_, _, _, _)
LaunchInstances(listed, actual, count, placements) ==
    IF count = 0 THEN [listed |-> listed, actual |-> actual, placements |-> placements]
    ELSE LET s == SelectSubnetForNewInstance(listed)
         IN  LaunchInstances([listed EXCEPT ![s] = @ + 1], [actual EXCEPT ![s] = @ + 1],
                             count - 1,
                             Append(placements, [subnet |-> s, held |-> actual]))

\* ec2_manager.py lines 116-139: the spot call, then the on-demand call,
\* which lists the running workers again (line 245, filter 'running' of line
\* 291): the instances the spot call started moments before are listed when
\* they are running already (visible) and are not while they are pending
PlaceScaleUp(before, spot_count, ondemand_count, visible) ==
    LET spot == LaunchInstances(before, before, spot_count, <<>>)
    IN  LaunchInstances(IF visible THEN spot.actual ELSE before, spot.actual,
                        ondemand_count, spot.placements)

\* one scale_up that launches az.spot_count spot and az.ondemand_count
\* on-demand instances
Place ==
    /\ az.status = "idle"
    /\ \E visible \in BOOLEAN :
        LET placed == PlaceScaleUp(az.before, az.spot_count, az.ondemand_count, visible)
        IN  az' = [az EXCEPT !.status = "returned", !.placements = placed.placements,
                             !.after = placed.actual]
    /\ UNCHANGED <<lockVars, evalVars, loopVars, mix, fleet, up, nodeVars, hnd, down,
                   appended, poll>>

PlacementInputs ==
    {[NoPlacement EXCEPT !.before = b, !.after = b, !.spot_count = s,
                         !.ondemand_count = o] :
        b \in [DOMAIN Subnets -> 0..MaxPerSubnet], s \in 0..MaxLaunch, o \in 0..MaxLaunch}

InitPlace ==
    /\ LockInit
    /\ ev = NoInputs
    /\ decision = NotEvaluated
    /\ LoopIdle
    /\ mix = NoMix
    /\ fleet = EmptyFleet
    /\ up = NoScaleUp
    /\ NodesIdle
    /\ hnd = NotInvoked
    /\ down = NoScaleDown
    /\ appended = NoAppends
    /\ poll = NoPoll
    /\ az \in PlacementInputs

NextPlace == Place

SpecPlace == InitPlace /\ [][NextPlace]_vars

\* ------------------------------------------------------------------------
\* One invocation of lambda_handler (src/lambda/autoscaler.py), step by step
\* ------------------------------------------------------------------------
\* a variant of lines 59-74 that drains with the default timeout of _drain_node
HandleSpotInterruptionEventDefaultTimeout(k, resolved, f) ==
    IF ~resolved
    THEN [calls |-> <<"create_tags", "describe_instances">>, drained |-> FALSE,
          timeout |-> 0, outcome |-> DrainNode(k, NoFaults)]
    ELSE [calls |-> <<"create_tags", "describe_instances", "drain_node">>, drained |-> TRUE,
          timeout |-> DRAIN_TIMEOUT, outcome |-> DrainNode(k, f)]

\* ec2_manager.py lines 51-74, handle_spot_interruption_event: tag the
\* instance, resolve its node name, and drain the node when the name resolved
HandleSpotInterruptionEvent(k, resolved, f) ==
    IF ~resolved
    THEN [calls |-> <<"create_tags", "describe_instances">>, drained |-> FALSE,
          timeout |-> 0, outcome |-> DrainNode(k, NoFaults)]
    ELSE [calls |-> <<"create_tags", "describe_instances", "drain_node">>, drained |-> TRUE,
          timeout |-> SPOT_DRAIN_TIMEOUT, outcome |-> DrainNode(k, f)]

\* a variant of the control flow that writes the state before the scaling
\* call is made
StepAfterPersistFirst(step, outcome) ==
    IF step = "collect" THEN (IF outcome = "ok" THEN "acquire" ELSE "failed")
    ELSE IF step = "acquire"
         THEN (IF outcome = "ok" THEN "get_state"
               ELSE IF outcome = "held" THEN "done" ELSE "failed")
    ELSE IF step = "get_state" THEN (IF outcome = "ok" THEN "decide" ELSE "release")
    ELSE IF step = "decide" THEN (IF outcome = "ok" THEN "persist" ELSE "release")
    ELSE IF step = "persist" THEN (IF outcome = "ok" THEN "execute" ELSE "release")
    ELSE IF step = "execute" THEN (IF outcome = "ok" THEN "notify" ELSE "release")
    ELSE IF step = "notify" THEN "release"
    ELSE IF step = "release" THEN (IF outcome = "ok" THEN "done" ELSE "failed")
    ELSE "done"

\* a variant of the control flow without the except block of lines 313-336:
\* an exception leaves the handler without a notification
StepAfterWithoutExcept(step, outcome) ==
    IF step = "collect" THEN (IF outcome = "ok" THEN "acquire" ELSE "done")
    ELSE IF step = "acquire"
         THEN (IF outcome \in {"ok"} THEN "get_state" ELSE "done")
    ELSE IF step = "get_state" THEN (IF outcome = "ok" THEN "decide" ELSE "release")
    ELSE IF step = "decide" THEN (IF outcome = "ok" THEN "execute" ELSE "release")
    ELSE IF step = "execute" THEN (IF outcome = "ok" THEN "persist" ELSE "release")
    ELSE IF step = "persist" THEN (IF outcome = "ok" THEN "notify" ELSE "release")
    ELSE IF step = "notify" THEN "release"
    ELSE "done"

\* lines 114-336: the step that follows a step of the handler.  outcome is
\* "ok", "raise", "held" (acquire_lock returned False) or "none" (no scaling
\* is needed); after the release, "raise" also stands for an exception that
\* the try body left pending.
StepAfter(step, outcome) ==
    IF step = "collect" THEN (IF outcome = "ok" THEN "acquire" ELSE "failed")
    ELSE IF step = "acquire"
         THEN (IF outcome = "ok" THEN "get_state"
               ELSE IF outcome = "held" THEN "done" ELSE "failed")
    ELSE IF step = "get_state" THEN (IF outcome = "ok" THEN "decide" ELSE "release")
    ELSE IF step = "decide" THEN (IF outcome = "ok" THEN "execute" ELSE "release")
    ELSE IF step = "execute" THEN (IF outcome = "ok" THEN "persist" ELSE "release")
    ELSE IF step = "persist" THEN (IF outcome = "ok" THEN "notify" ELSE "release")
    ELSE IF step = "notify" THEN "release"
    ELSE IF step = "release" THEN (IF outcome = "ok" THEN "done" ELSE "failed")
    ELSE "done"

\* the handler after a call: the call is added to the trace, an exception it
\* raised becomes the pending exception
Advance(h, step, outcome, call) ==
    [h EXCEPT !.status = StepAfter(step, outcome),
              !.trace = Append(@, call),
              !.exc = IF outcome = "raise" THEN call ELSE @,
              !.original = IF outcome = "raise" /\ @ = "" THEN call ELSE @]

\* a call of send_notification; the message is not delivered when the topic
\* is not configured or the publish fails, which slack_notifier.py swallows
Notification(kind, text, delivered) ==
    [kind |-> kind, text |-> text, delivered |-> delivered]

\* EventBridge delivers a spot interruption warning, with or without an
\* instance id, or the scheduled event
Receive ==
    /\ hnd.status = "idle"
    /\ \E e \in {"spot", "spot_without_id", "scheduled"} :
        hnd' = [hnd EXCEPT !.event = e,
                           !.status = IF e = "scheduled" THEN "collect" ELSE "spot",
                           !.entry = record]
    /\ UNCHANGED <<lockVars, evalVars, loopVars, mix, fleet, up, nodeVars, mgrVars>>

\* lines 74-112: the spot interruption path.  Building the EC2Manager is the
\* only call of the path that can raise; without an instance id the handler
\* returns 400 before it
SpotInterruption ==
    /\ hnd.status = "spot"
    /\ IF hnd.event = "spot_without_id"
       THEN /\ hnd' = [hnd EXCEPT !.status = "done",
                                  !.result = [kind |-> "return", statusCode |-> 400,
                                              body |-> "Missing instance-id"]]
            /\ UNCHANGED <<kube, drain>>
       ELSE \E built \in BOOLEAN, resolved \in BOOLEAN, delivered \in BOOLEAN,
               f \in DrainFaults(kube.pods) :
                IF ~built
                THEN /\ hnd' = [hnd EXCEPT
                                  !.status = "done",
                                  !.trace = <<"send_notification">>,
                                  !.exc = "EC2Manager",
                                  !.original = "EC2Manager",
                                  !.notifications =
                                      <<Notification("failure", "EC2Manager", delivered)>>,
                                  !.result = [Raises EXCEPT !.body = "EC2Manager"]]
                     /\ UNCHANGED <<kube, drain>>
                ELSE LET r == HandleSpotInterruptionEvent(kube, resolved, f)
                     IN  /\ hnd' = [hnd EXCEPT
                                      !.status = "done",
                                      !.trace = r.calls \o <<"send_notification">>,
                                      !.notifications =
                                          <<Notification("spot", "", delivered)>>,
                                      !.result = Returned("Spot handled")]
                         /\ drain' = IF r.drained
                                     THEN [status |-> "returned", timeout |-> r.timeout,
                                           returned |-> r.outcome.returned,
                                           gate |-> r.outcome.gate,
                                           evicted |-> r.outcome.evicted, before |-> kube]
                                     ELSE drain
                         /\ kube' = IF r.drained
                                    THEN [kube EXCEPT
                                            !.cordoned = r.outcome.cordoned,
                                            !.pods = IF f.stuck THEN @
                                                     ELSE @ \ r.outcome.evicted]
                                    ELSE kube
    /\ UNCHANGED <<lockVars, evalVars, loopVars, mix, fleet, up, sel, mgrVars>>

\* lines 119-121: collect_metrics returns the metrics or raises
CollectMetrics ==
    /\ hnd.status = "collect"
    /\ \E ok \in BOOLEAN :
        hnd' = Advance(hnd, "collect", IF ok THEN "ok" ELSE "raise", "collect_metrics")
    /\ UNCHANGED <<lockVars, evalVars, loopVars, mix, fleet, up, nodeVars, mgrVars>>

\* lines 129-136: acquire_lock takes the lock, returns False on a lock that
\* is held, or raises on another error of the table
AcquireLock ==
    /\ hnd.status = "acquire"
    /\ \E outcome \in {"ok", "held", "raise"} :
        /\ outcome = "ok" => LockCondition(item, now)
        /\ outcome = "held" => ~LockCondition(item, now)
        /\ item' = IF outcome = "ok" THEN LockedItem(item, now) ELSE item
        /\ hnd' = [Advance(hnd, "acquire", outcome, "acquire_lock") EXCEPT
                      !.result = IF outcome = "held"
                                 THEN Returned("Skipped: Scaling already in progress")
                                 ELSE @]
    /\ UNCHANGED <<now, pc, current_time, retries, calls, result, overstayed, evalVars,
                   loopVars, mix, fleet, up, nodeVars, mgrVars>>

\* line 140: get_state
GetState ==
    /\ hnd.status = "get_state"
    /\ \E ok \in BOOLEAN :
        hnd' = Advance(hnd, "get_state", IF ok THEN "ok" ELSE "raise", "get_state")
    /\ UNCHANGED <<lockVars, evalVars, loopVars, mix, fleet, up, nodeVars, mgrVars>>

\* lines 141-247: the history is updated, the metrics are stored, the engine
\* and the forecast decide; 'none' returns 'No scaling needed'
Decide ==
    /\ hnd.status = "decide"
    /\ \E metrics \in LoopReadings, metric_node_count \in LiveCounts :
        LET current_nodes == ReconciledNodes(metric_node_count, StoredNodeCount(record))
            d == [min_nodes |-> MIN_NODES, max_nodes |-> MAX_NODES,
                  current_nodes |-> current_nodes,
                  last_scale_time |-> LastScaleTime(record), current_time |-> now]
            reactive == Evaluate(d, metrics, record.metrics_history, NoCustom)
            stored_table ==
                AddSample(table, Sample(HourOf(now), WeekdayOf(now), metrics.cpu_usage,
                                        metrics.memory_usage, metrics.pending_pods))
            prediction == IF ConsultsForecast(reactive, now)
                          THEN PredictNextHourLoad(stored_table, now)
                          ELSE NoPrediction
            action == ProactiveAction(reactive, prediction, current_nodes, now)
            outcome == IF reactive.action = "raise" THEN "raise"
                       ELSE IF action.action = "none" THEN "none" ELSE "ok"
        IN  /\ record' = [record EXCEPT
                            !.metrics_history = UpdateMetricsHistory(@, metrics)]
            /\ table' = stored_table
            /\ hnd' = [hnd EXCEPT
                          !.status = StepAfter("decide", outcome),
                          !.trace = @ \o <<"update_metrics_history", "store_metrics",
                                           "evaluate">>,
                          !.exc = IF outcome = "raise" THEN "evaluate" ELSE @,
                          !.original = IF outcome = "raise" THEN "evaluate" ELSE @,
                          !.action = IF outcome = "raise" THEN @ ELSE action,
                          !.current_nodes = current_nodes,
                          !.result = IF outcome = "none"
                                     THEN Returned("No scaling needed") ELSE @]
    /\ UNCHANGED <<lockVars, evalVars, run, trail, mix, fleet, up, nodeVars, mgrVars>>

\* ec2_manager.py lines 115-158: a scale_up that returns has started the
\* nodes it was asked for, and beside them the instances that a failed spot
\* launch had started before the on-demand fallback replaced its whole count
ScaleUpLaunched(nodes) == {nodes + j : j \in 0..nodes}

\* ec2_manager.py lines 181-221: a scale_down that returns has terminated
\* the selected instances whose drain was not refused, none of them included
ScaleDownTerminated(nodes) == 0..nodes

\* the instances that the call of lines 257-266 has started or terminated
\* when it returns
ExecutedCounts(action) ==
    IF action.action = "scale_up" THEN ScaleUpLaunched(action.nodes)
    ELSE ScaleDownTerminated(action.nodes)

\* lines 251-266: scale_up or scale_down returns or raises; changed is the
\* number of instances the call that returned has started or terminated
Execute ==
    /\ hnd.status = "execute"
    /\ \E ok \in BOOLEAN, n \in ExecutedCounts(hnd.action) :
        hnd' = [Advance(hnd, "execute", IF ok THEN "ok" ELSE "raise", hnd.action.action)
                   EXCEPT !.changed = IF ok THEN n ELSE 0]
    /\ UNCHANGED <<lockVars, evalVars, loopVars, mix, fleet, up, nodeVars, mgrVars>>

\* lines 269-270: update_state writes node_count and last_scale_time, or raises
Persist ==
    /\ hnd.status = "persist"
    /\ \E ok \in BOOLEAN :
        /\ hnd' = Advance(hnd, "persist", IF ok THEN "ok" ELSE "raise", "update_state")
        /\ record' = IF ok
                     THEN [record EXCEPT
                             !.node_count = NewNodeCount(hnd.current_nodes, hnd.action),
                             !.last_scale_time = now]
                     ELSE record
    /\ UNCHANGED <<lockVars, evalVars, table, run, trail, mix, fleet, up, nodeVars, mgrVars>>

\* lines 273-306: the metrics are published and the notification is sent;
\* neither raises
Notify ==
    /\ hnd.status = "notify"
    /\ \E delivered \in BOOLEAN :
        hnd' = [Advance(hnd, "notify", "ok", "send_notification") EXCEPT
                  !.notifications =
                      Append(@, Notification("scaling", hnd.action.action, delivered)),
                  !.result = Returned("Scaling completed")]
    /\ UNCHANGED <<lockVars, evalVars, loopVars, mix, fleet, up, nodeVars, mgrVars>>

\* lines 308-311: the finally block.  release_lock raises on an error of the
\* table, and its exception replaces the one the try body left pending
ReleaseLock ==
    /\ hnd.status = "release"
    /\ \E ok \in BOOLEAN :
        IF ok
        THEN /\ item' = ReleasedItem(item)
             /\ hnd' = [hnd EXCEPT
                          !.status = StepAfter("release",
                                               IF hnd.exc = "" THEN "ok" ELSE "raise"),
                          !.trace = Append(@, "release_lock")]
        ELSE /\ item' = item
             /\ hnd' = [hnd EXCEPT
                          !.status = StepAfter("release", "raise"),
                          !.trace = Append(@, "release_lock"),
                          !.exc = "release_lock",
                          !.original = IF @ = "" THEN "release_lock" ELSE @,
                          !.result = NoResult]
    /\ UNCHANGED <<now, pc, current_time, retries, calls, result, overstayed, evalVars,
                   loopVars, mix, fleet, up, nodeVars, mgrVars>>

\* lines 313-336: the failure metrics and the failure notification, whose own
\* failures are swallowed, then the exception is raised again
Fail ==
    /\ hnd.status = "failed"
    /\ \E delivered \in BOOLEAN :
        hnd' = [hnd EXCEPT
                  !.status = "done",
                  !.trace = Append(@, "send_notification"),
                  !.notifications = Append(@, Notification("failure", hnd.exc, delivered)),
                  !.result = [Raises EXCEPT !.body = hnd.exc]]
    /\ UNCHANGED <<lockVars, evalVars, loopVars, mix, fleet, up, nodeVars, mgrVars>>

\* ------------------------------------------------------------------------
\* Specification of one invocation: its event, and every outcome of its calls
\* ------------------------------------------------------------------------
\* the lock as another invocation that started a minute earlier holds it
HeldByAnother == LockedItem(NoItem, LoopStart + LOOP_PERIOD - 60)

\* nodes for the interrupted instance, with and without pods
HandlerNodes ==
    {[QuietNode EXCEPT !.config = c, !.pods = ps] :
        c \in {"incluster", "file"},
        ps \in {{}, {Pod("web", "ReplicaSet", FALSE, 0)},
                {Pod("db-0", "StatefulSet", FALSE, 0)}}}

InitHandler ==
    /\ now = LoopStart + LOOP_PERIOD
    /\ item \in {NoItem, ReleasedEarlier, HeldByAnother}
    /\ pc = [p \in Procs |-> "idle"]
    /\ current_time = [p \in Procs |-> Missing]
    /\ retries = [p \in Procs |-> 0]
    /\ calls = [p \in Procs |-> <<>>]
    /\ result = [p \in Procs |-> NoResult]
    /\ overstayed = FALSE
    /\ ev = NoInputs
    /\ decision = NotEvaluated
    /\ record \in LoopRecords
    /\ table \in LoopTables
    /\ run = NotRun
    /\ trail = NoTrail
    /\ mix = NoMix
    /\ fleet = EmptyFleet
    /\ up = NoScaleUp
    /\ kube \in HandlerNodes
    /\ drain = NoDrain
    /\ sel = NoSelection
    /\ hnd = [NotInvoked EXCEPT !.entry = record]
    /\ MgrIdle

NextHandler ==
    \/ Receive
    \/ SpotInterruption
    \/ CollectMetrics
    \/ AcquireLock
    \/ GetState
    \/ Decide
    \/ Execute
    \/ Persist
    \/ Notify
    \/ ReleaseLock
    \/ Fail

SpecHandler == InitHandler /\ [][NextHandler]_vars

\* ------------------------------------------------------------------------
\* Properties of the lock
\* ------------------------------------------------------------------------
Abs(x) == IF x < 0 THEN -x ELSE x
Skipped == Returned("Skipped: Scaling already in progress")
CountOf(seq, x) == Cardinality({i \in DOMAIN seq : seq[i] = x})

\* C1 (as stated): at no instant are two invocations both inside their
\* critical section, whatever their duration
C1_MutualExclusionAnyDuration ==
    \A p, q \in Procs : p # q => ~(InCriticalSection(p) /\ InCriticalSection(q))

\* C1 (amended): as long as no invocation has been inside its critical
\* section more than 300 seconds after the clock reading of its acquire_lock,
\* no two invocations are inside their critical sections at once
C1_MutualExclusionWhileFresh ==
    ~overstayed =>
        \A p, q \in Procs : p # q => ~(InCriticalSection(p) /\ InCriticalSection(q))

\* one invocation holds a fresh lock and another one has just been refused
C1_Witness ==
    /\ ~overstayed
    /\ \E p, q \in Procs :
        /\ InCriticalSection(p) /\ now - current_time[p] = LOCK_STALE_SECONDS
        /\ pc[q] = "conflict" /\ current_time[q] = now

\* the two racers have both left acquire_lock
RaceOver == \A p \in Racers : pc[p] \in {"body", "done"}
Winners == {p \in Racers : pc[p] = "body"}

\* C2 (as stated): of two callers racing for a free lock exactly one gets
\* True and the other False, in every interleaving
C2_ExactlyOneWinner == RaceOver => Cardinality(Winners) = 1

\* C2 (amended): at least one of the two racers gets True, and both get True
\* only if their clock readings are more than 300 seconds apart
C2_OneWinnerUnlessClocksApart ==
    RaceOver =>
        /\ Winners # {}
        /\ \A p, q \in Winners :
            p # q => Abs(current_time[p] - current_time[q]) > LOCK_STALE_SECONDS

\* the race is over with one winner and one caller that was refused
C2_Witness ==
    /\ RaceOver
    /\ \E p, q \in Racers :
        /\ pc[p] = "body" /\ item.lock_acquired_at = current_time[p]
        /\ pc[q] = "done" /\ result[q] = Skipped

\* C3: a caller whose conditional write meets a held lock that is more than
\* 300 seconds older than the caller's clock reading gets the lock (True),
\* so a holder that never released cannot block later invocations
C3_StaleLockIsAcquired ==
    [][\A p \in Procs :
        (/\ pc[p] = "update_item" /\ pc'[p] # "update_item"
         /\ item.has_flag /\ item.scaling_in_progress
         /\ current_time[p] - item.lock_acquired_at > LOCK_STALE_SECONDS)
        => (/\ pc'[p] = "body"
            /\ item'.scaling_in_progress
            /\ item'.lock_acquired_at = current_time[p])]_vars

\* the holder crashed without releasing, its lock is 600 seconds old and a
\* caller that read the clock now has taken it over
C3_Witness ==
    \E p, q \in Procs :
        /\ pc[p] = "crashed" /\ pc[q] = "body"
        /\ \A r \in Procs \ {p, q} : pc[r] = "idle"
        /\ item.scaling_in_progress /\ item.lock_acquired_at = current_time[q]
        /\ current_time[q] = 2 * LOCK_STALE_SECONDS /\ now = current_time[q]

\* C4 (as stated): against a lock held for 300 seconds or less acquire_lock
\* returns False and leaves the record unchanged, and it never forces more
\* than one release nor retries more than once
C4_FalseOnFreshAndSingleRetry ==
    [][\A p \in Procs :
        /\ retries'[p] <= 1
        /\ (/\ pc[p] = "conflict" /\ pc'[p] # "conflict"
            /\ item.scaling_in_progress
            /\ current_time[p] - item.lock_acquired_at <= LOCK_STALE_SECONDS)
           => (pc'[p] = "done" /\ result'[p] = Skipped /\ item' = item)]_vars

C6_ReleasedExactlyOnce ==
    \A p \in Procs :
        /\ (pc[p] = "done" /\ result[p] # Skipped)
            => (/\ CountOf(calls[p], "release_lock") = 1
                /\ calls[p][Len(calls[p])] = "release_lock")
        /\ InCriticalSection(p) => CountOf(calls[p], "release_lock") = 0

\* an invocation whose scaling step raised has released the lock
C6_Witness ==
    \E p \in Procs :
        /\ pc[p] = "done" /\ result[p] = Raises
        /\ calls[p] = <<"get_state", "update_metrics_history", "evaluate",
                        "scale", "update_state", "send_notification", "release_lock">>
        /\ ~item.scaling_in_progress

\* ------------------------------------------------------------------------
\* Properties of the decision engine
\* ------------------------------------------------------------------------
Evaluated == decision # NotEvaluated
Elapsed == ev.d.current_time - ev.d.last_scale_time
InRange == ev.d.min_nodes <= ev.d.current_nodes /\ ev.d.current_nodes < ev.d.max_nodes
AtMax == ev.d.current_nodes >= ev.d.max_nodes

\* the current reading and the two most recent history entries all exceed thr
AboveInLastThree(key, thr) ==
    /\ Len(ev.history) >= 2
    /\ ev.metrics[key] > thr
    /\ ev.history[Len(ev.history)][key] > thr
    /\ ev.history[Len(ev.history) - 1][key] > thr

\* the current reading and the nine most recent history entries are all low
LowInLastTen ==
    /\ Len(ev.history) >= 9
    /\ \A i \in 0..9 :
        LET r == IF i = 0 THEN ev.metrics ELSE ev.history[Len(ev.history) - i + 1]
        IN r.cpu_usage < 30 /\ r.memory_usage < 50 /\ r.pending_pods < 1

HighInLastThree ==
    \/ AboveInLastThree("cpu_usage", 70)
    \/ AboveInLastThree("memory_usage", 75)
    \/ AboveInLastThree("pending_pods", 0)

InReason(text) == \E i \in DOMAIN decision.reason : decision.reason[i] = text

\* C7: with current_nodes < min_nodes evaluate returns scale_up of
\* min_nodes - current_nodes nodes, whatever the metrics, the history, the
\* custom signal and the time since the last scaling are
C7_MinimumEnforced ==
    (Evaluated /\ ev.d.current_nodes < ev.d.min_nodes)
        => (/\ decision.action = "scale_up"
            /\ decision.nodes = ev.d.min_nodes - ev.d.current_nodes)

\* the fleet is empty, the metrics are low and the last scaling was this
\* very second: two nodes are added
C7_Witness ==
    /\ Evaluated /\ ev.d.current_nodes = 0 /\ Elapsed = 0
    /\ ev.metrics = Snap(29, 49, 0) /\ Len(ev.history) = 10
    /\ decision = Decision("scale_up", 2, <<"Enforcing minimum node count">>)

\* C8 (as stated): with current_nodes >= max_nodes evaluate never returns
\* scale_up, and under sustained high load with the cooldown elapsed it
\* returns 'none' with 0 nodes and a reason naming max capacity
C8_NoneAtMaxCapacity ==
    (Evaluated /\ AtMax)
        => (/\ decision.action # "scale_up"
            /\ (HighInLastThree /\ Elapsed >= 300)
                => (/\ decision.action = "none" /\ decision.nodes = 0
                    /\ InReason("At max capacity")))

\* C9 (as stated): with current_nodes >= max_nodes the scale-down evaluation
\* still runs: sustained low utilization with the cooldown elapsed and
\* max_nodes > min_nodes gives scale_down of 1 node, and no qualifying
\* condition gives 'none' (stable)
C9_ScaleDownEvaluatedAtMax ==
    (Evaluated /\ AtMax)
        => (/\ (LowInLastTen /\ Elapsed >= 600 /\ ev.d.max_nodes > ev.d.min_nodes)
                => (decision.action = "scale_down" /\ decision.nodes = 1)
            /\ (~LowInLastTen /\ ~HighInLastThree /\ ~ev.custom_metrics.present)
                => (decision.action = "none" /\ InReason("Stable")))

\* C10: with min_nodes <= current_nodes < max_nodes and no custom signal, a
\* scale_up is returned only if CPU > 70, memory > 75 or pending > 0 holds in
\* the current reading and in both of the two most recent history entries,
\* and a metric is named in the reason only if it does
C10_ScaleUpOnlyWhenSustained ==
    (Evaluated /\ InRange /\ ~ev.custom_metrics.present /\ decision.action = "scale_up")
        => (/\ HighInLastThree
            /\ InReason("CPU sustained > 70.0%") => AboveInLastThree("cpu_usage", 70)
            /\ InReason("Memory sustained > 75.0%") => AboveInLastThree("memory_usage", 75)
            /\ InReason("Pending pods sustained > 0") => AboveInLastThree("pending_pods", 0))

\* the CPU is above 70 now and in the latest entry but exactly 70 in the
\* entry before it: the scale_up is due to memory and pending pods only
C10_Witness ==
    /\ Evaluated /\ InRange /\ ~ev.custom_metrics.present
    /\ ev.metrics = Snap(71, 76, 6)
    /\ Len(ev.history) = 3
    /\ ev.history[3] = Snap(71, 76, 1) /\ ev.history[2] = Snap(70, 76, 1)
    /\ decision.action = "scale_up"
    /\ decision.reason = <<"Memory sustained > 75.0%", "Pending pods sustained > 0">>

\* the custom signal adds a reason of its own (lines 87-89)
CustomTrigger ==
    /\ ev.custom_metrics.present /\ ev.custom_metrics.scale_needed
    /\ ev.custom_metrics.reasons # <<>>

LowInLastSix ==
    /\ Len(ev.history) = 5
    /\ \A i \in 0..5 :
        LET r == IF i = 0 THEN ev.metrics ELSE ev.history[Len(ev.history) - i + 1]
        IN r.cpu_usage < 30 /\ r.memory_usage < 50 /\ r.pending_pods < 1

\* C12 (as stated): with min_nodes < current_nodes (and current_nodes below
\* max_nodes) and 600 seconds since the last scaling, a low current reading
\* after five low history readings gives scale_down of 1 node with a reason
\* naming sustained low utilization
C12_ScaleDownAfterFiveReadings ==
    (/\ Evaluated /\ InRange /\ ev.d.current_nodes > ev.d.min_nodes
     /\ Elapsed >= 600 /\ LowInLastSix /\ ~CustomTrigger)
        => (/\ decision.action = "scale_down" /\ decision.nodes = 1
            /\ InReason("Sustained low utilization (10m)"))

\* the inputs qualify for a scale-up, for a scale-down
QualifiesForScaleUp == InRange /\ (HighInLastThree \/ CustomTrigger)
QualifiesForScaleDown ==
    /\ ev.d.current_nodes > ev.d.min_nodes
    /\ LowInLastTen /\ ~CustomTrigger

\* C13 (as stated): with inputs that qualify for a scale-up the result is
\* scale_up when 300 seconds or more have passed since the last scaling and
\* 'none' (In cooldown) otherwise; with inputs that qualify for a scale-down
\* it is scale_down from 600 seconds on and 'none' (In cooldown) before
C13_CooldownIsTheOnlyGate ==
    Evaluated =>
        /\ QualifiesForScaleUp =>
            IF Elapsed >= 300 THEN decision.action = "scale_up"
            ELSE decision.action = "none" /\ InReason("In cooldown")
        /\ QualifiesForScaleDown =>
            IF Elapsed >= 600 THEN decision.action = "scale_down"
            ELSE decision.action = "none" /\ InReason("In cooldown")

\* C14: a scale_up returned with min_nodes <= current_nodes < max_nodes has
\* nodes = min(k, max_nodes - current_nodes), k = 2 when the current CPU > 85
\* or the current pending workloads > 5 and k = 1 otherwise; so it adds 1 or 2
\* nodes and never takes the fleet above max_nodes
C14_ScaleUpIncrement ==
    (Evaluated /\ InRange /\ decision.action = "scale_up")
        => (/\ decision.nodes =
                Min(IF ev.metrics.cpu_usage > 85 \/ ev.metrics.pending_pods > 5 THEN 2 ELSE 1,
                    ev.d.max_nodes - ev.d.current_nodes)
            /\ 1 <= decision.nodes /\ decision.nodes <= 2
            /\ ev.d.current_nodes + decision.nodes <= ev.d.max_nodes)

\* one node below max_nodes under extreme CPU: the two nodes are cut to one
C14_Witness ==
    /\ Evaluated /\ InRange
    /\ ev.d.current_nodes = ev.d.max_nodes - 1
    /\ ev.metrics = Snap(86, 49, 0)
    /\ decision = Decision("scale_up", 1, <<"CPU sustained > 70.0%">>)

\* C15 (as stated): a scale_down removes exactly 1 node and is returned only
\* with current_nodes > min_nodes, and sustained low utilization with
\* current_nodes <= min_nodes gives 'none' with a reason naming the minimum
C15_NoneAtOrBelowMinimum ==
    Evaluated =>
        /\ decision.action = "scale_down"
            => (decision.nodes = 1 /\ ev.d.current_nodes > ev.d.min_nodes)
        /\ (LowInLastTen /\ ev.d.current_nodes <= ev.d.min_nodes)
            => (decision.action = "none" /\ InReason("At min capacity"))

\* C15 (amended): a scale_down removes exactly 1 node and is returned only
\* with current_nodes > min_nodes, so it leaves at least min_nodes; under
\* sustained low utilization without a custom signal, current_nodes below
\* min_nodes gives the minimum-enforcing scale_up, and current_nodes =
\* min_nodes < max_nodes gives 'none': 'At min capacity' once 600 seconds have
\* passed since the last scaling, 'In cooldown' before
C15_ScaleDownKeepsMinimum ==
    Evaluated =>
        /\ decision.action = "scale_down"
            => (/\ decision.nodes = 1 /\ ev.d.current_nodes > ev.d.min_nodes
                /\ ev.d.current_nodes - decision.nodes >= ev.d.min_nodes)
        /\ (LowInLastTen /\ ~CustomTrigger /\ ev.d.current_nodes < ev.d.min_nodes)
            => (/\ decision.action = "scale_up"
                /\ decision.nodes = ev.d.min_nodes - ev.d.current_nodes
                /\ InReason("Enforcing minimum node count"))
        /\ (/\ LowInLastTen /\ ~CustomTrigger
            /\ ev.d.current_nodes = ev.d.min_nodes /\ ev.d.min_nodes < ev.d.max_nodes)
            => (/\ decision.action = "none" /\ decision.nodes = 0
                /\ IF Elapsed >= 600 THEN InReason("At min capacity")
                   ELSE InReason("In cooldown"))

\* the fleet is at its minimum, utilization has been low for ten readings
\* and the cooldown is over: no node is removed
C15_Witness ==
    /\ Evaluated /\ LowInLastTen /\ Elapsed = 600
    /\ ev.d.current_nodes = ev.d.min_nodes /\ ev.d.min_nodes < ev.d.max_nodes
    /\ decision = Decision("none", 0, <<"At min capacity">>)

\* ------------------------------------------------------------------------
\* Properties of the control loop
\* ------------------------------------------------------------------------
\* the latest invocation built the decision engine and called evaluate
EngineRan == run.status # "idle" /\ decision # NotEvaluated
\* the latest invocation called ec2_manager.scale_up for the forecast
PredictiveCall == run.called /\ KindOf(run.action) = "predictive"

\* C16: the decision engine is given the live metric node count, whatever
\* node_count the record holds; with a live count of zero its input is 0 and
\* the invocation calls scale_up for min_nodes nodes, whatever the stored
\* count and the time since the last scaling are
C16_LiveNodeCountDecides ==
    EngineRan =>
        /\ ev.d.current_nodes = run.metric_node_count
        /\ run.metric_node_count = 0
            => (/\ run.called
                /\ run.action.action = "scale_up"
                /\ run.action.nodes = MIN_NODES)

\* the record says more nodes than the minimum, the last scaling was two
\* minutes ago and the metrics show no node: min_nodes nodes are added
C16_Witness ==
    /\ EngineRan /\ run.status = "scaled"
    /\ run.metric_node_count = 0 /\ run.stored_node_count > MIN_NODES
    /\ ev.d.current_time - ev.d.last_scale_time = LOOP_PERIOD
    /\ run.action = Decision("scale_up", MIN_NODES, <<"Enforcing minimum node count">>)
    /\ record.node_count = MIN_NODES

\* C17 (as stated): the forecast is consulted only when the reactive decision
\* is 'none' and the invocation falls in the last ten minutes of the hour,
\* and no forecast-driven scale-up is executed in a clock hour that has seen
\* one already
C17_ForecastOncePerHour ==
    /\ run.consulted => (decision.action = "none" /\ MinuteOf(now) >= 50)
    /\ (/\ run.status = "scaled" /\ KindOf(run.action) = "predictive"
        /\ run.before.last_predictive # Missing)
        => (now \div 3600) # (run.before.last_predictive \div 3600)

\* C18 (as stated): an executed scale-up that is not minimum enforcement
\* comes 300 seconds or more after the previous such scale-up, and an
\* executed scale-down 600 seconds or more after the previous executed
\* scaling action, forecast-driven scale-ups included
C18_CooldownBetweenExecutedActions ==
    run.status = "scaled" =>
        /\ (/\ run.action.action = "scale_up" /\ KindOf(run.action) # "minimum"
            /\ run.before.last_scale_up # Missing)
            => now - run.before.last_scale_up >= 300
        /\ (run.action.action = "scale_down" /\ run.before.last_scaling # Missing)
            => now - run.before.last_scaling >= 600

\* C19: a forecast-driven scale-up is executed only if the table holds 20
\* samples or more, the prediction's confidence is 0.3 or more, and the
\* predicted CPU is above 70, the predicted memory above 73.5 or the
\* predicted pending workloads above 0
C19_ForecastGate ==
    PredictiveCall =>
        /\ SampleCount(table) >= 20
        /\ run.prediction.present
        /\ run.prediction.confidence >= 3
        /\ \/ run.prediction.predicted_cpu.n > 70 * run.prediction.predicted_cpu.d
           \/ 2 * run.prediction.predicted_memory.n > 147 * run.prediction.predicted_memory.d
           \/ run.prediction.predicted_pending_pods > 0

\* the invocation that stored the twentieth sample acted on the forecast
C19_Witness ==
    /\ PredictiveCall /\ run.status = "scaled"
    /\ SampleCount(table) = 20
    /\ run.prediction.confidence = 10
    /\ run.prediction.predicted_cpu.n > 70 * run.prediction.predicted_cpu.d

\* C20: calculate_recommended_nodes returns r >= 2 and, for current_nodes >=
\* 2, current_nodes <= r <= current_nodes + 3; the control loop adds
\* min(r - current_nodes, 2) nodes, and only when that is positive
C20_RecommendationBounds ==
    run.status = "recommended" =>
        /\ run.recommended_nodes >= 2
        /\ run.metric_node_count >= 2
            => (/\ run.metric_node_count <= run.recommended_nodes
                /\ run.recommended_nodes <= run.metric_node_count + 3)
        /\ run.action.action = "scale_up"
            => (/\ run.action.nodes = Min(run.recommended_nodes - run.metric_node_count, 2)
                /\ run.action.nodes > 0)
        /\ run.recommended_nodes <= run.metric_node_count
            => run.action.action = "none"

\* a forecast of 200% CPU for four nodes: seven are recommended, two are added
C20_Witness ==
    /\ run.status = "recommended"
    /\ run.metric_node_count = 4 /\ run.prediction.predicted_cpu = Rat(200, 1)
    /\ run.recommended_nodes = 7
    /\ run.action = Decision("scale_up", 2, <<"Predictive">>)

\* ------------------------------------------------------------------------
\* Properties of the launch split and of scale_up
\* ------------------------------------------------------------------------
MixReturned == mix.status = "returned"

\* C21: for non-negative existing counts and every desired_nodes the split is
\* non-negative; it adds up to desired_nodes - current_nodes when that is
\* positive and is 0 + 0 when desired_nodes <= current_nodes
C21_SplitCoversTheIncrement ==
    MixReturned =>
        /\ mix.spot >= 0
        /\ mix.ondemand >= 0
        /\ IF mix.desired_nodes > mix.current_nodes
           THEN mix.spot + mix.ondemand = mix.desired_nodes - mix.current_nodes
           ELSE mix.spot = 0 /\ mix.ondemand = 0

\* the fleet already holds more spot instances than the ideal total and the
\* whole increment is launched as on-demand plus topped-up spot
C21_Witness ==
    /\ MixReturned
    /\ mix.desired_nodes > mix.current_nodes
    /\ mix.existing_spot_count > IdealTotalSpot(mix.desired_nodes)
    /\ mix.existing_ondemand_count > mix.desired_nodes - IdealTotalSpot(mix.desired_nodes)
    /\ mix.spot = mix.desired_nodes - mix.current_nodes

\* C22 (as stated): after every scale-up of a fleet that started empty, the
\* spot count differs from 70% of the fleet size by less than one node
C22_SpotShareWithinOneNode ==
    LET size == fleet.spot + fleet.ondemand
    IN  Abs(10 * fleet.spot - TARGET_SPOT_TENTHS * size) < 10

ScaleUpReturned == up.status = "returned"

\* C23 (as stated): the split of scale_up follows the configured spot
\* percentage: with 0 a scale_up of n launches n on-demand instances and no
\* spot instance, and with 70 a scale_up of 2 on an empty fleet whose spot
\* launch succeeds launches 1 spot and 1 on-demand
C23_SplitFollowsSpotPercentage ==
    ScaleUpReturned =>
        /\ up.before.spot_percentage = 0 =>
               up.spot_count = 0 /\ up.ondemand_count = up.nodes_to_add
        /\ ( /\ up.before.spot_percentage = 70
             /\ up.before.spot + up.before.ondemand = 0
             /\ up.nodes_to_add = 2
             /\ ~up.spot_failed ) =>
               up.spot_count = 1 /\ up.ondemand_count = 1

\* C24: when the spot launch of a scale_up fails and the on-demand launch
\* succeeds, scale_up returns success with spot_count = 0 and
\* ondemand_count = nodes_to_add
C24_SpotShortfallGoesToOnDemand ==
    (up.status # "idle" /\ up.spot_failed /\ ~up.ondemand_failed) =>
        /\ ScaleUpReturned
        /\ up.success
        /\ up.spot_count = 0
        /\ up.ondemand_count = up.nodes_to_add

\* a scale_up of several nodes on a fleet with on-demand instances lost its
\* spot launch and still returned
C24_Witness ==
    /\ ScaleUpReturned
    /\ up.spot_failed
    /\ up.nodes_to_add > 1
    /\ up.before.ondemand > 0
    /\ up.ondemand_count = up.nodes_to_add
    /\ up.instance_ids = up.nodes_to_add

\* ------------------------------------------------------------------------
\* Properties of the drain and of the victim selection
\* ------------------------------------------------------------------------
Drained == drain.status = "returned"
HostsLastReplica ==
    \E p \in StatefulsetPods(drain.before.pods) : p.ready_elsewhere = 0

\* C25 (as stated): draining a node that hosts a stateful-set pod with no
\* ready replica on another node returns failure, evicts nothing and leaves
\* the node schedulable; when every stateful-set pod has a ready replica
\* elsewhere, a drain that reaches the gate goes on to the eviction
C25_LastReplicaBlocksDrain ==
    Drained =>
        /\ HostsLastReplica =>
               /\ ~drain.returned
               /\ drain.evicted = {}
               /\ ~kube.cordoned
        /\ (~HostsLastReplica /\ drain.gate # "not_reached") => drain.gate = "passed"

Selected == {sel.selected[k] : k \in DOMAIN sel.selected}
Risky(inst) == inst.critical \/ inst.sole \/ inst.sts

\* C26 (as stated): no node that carries a system-critical workload, a sole
\* replica or a stateful workload is selected while a node with none of these
\* and fewer than 100 workloads is left unselected
C26_RiskyNodesSelectedLast ==
    sel.status = "returned" =>
        \A i \in Selected, j \in DOMAIN sel.instances \ Selected :
            ~( /\ Risky(sel.instances[i])
               /\ ~Risky(sel.instances[j])
               /\ NodePodInfo(sel.instances[j]).count < 100 )

SameLoad(a, b) == NodePodInfo(a) = NodePodInfo(b)

InTrace(call) == \E i \in DOMAIN hnd.trace : hnd.trace[i] = call

\* the first position of a call the trace holds
Pos(call) == CHOOSE i \in DOMAIN hnd.trace :
                 hnd.trace[i] = call /\ \A j \in 1..(i - 1) : hnd.trace[j] # call

StateUnwritten ==
    /\ record.node_count = hnd.entry.node_count
    /\ record.last_scale_time = hnd.entry.last_scale_time

SpotEventHandled == hnd.status = "done" /\ hnd.event = "spot"

\* the spot path leaves the lock, the metrics, the state and the instance alone
SpotPathFrame ==
    /\ \A c \in {"collect_metrics", "acquire_lock", "get_state", "update_state",
                 "release_lock", "terminate_instances"} : ~InTrace(c)
    /\ record = hnd.entry

\* an event without an instance id returns 400 and has done nothing
MissingIdRefused ==
    (hnd.status = "done" /\ hnd.event = "spot_without_id")
        => /\ hnd.result.statusCode = 400
           /\ hnd.trace = <<>>
           /\ hnd.notifications = <<>>
           /\ drain = NoDrain
           /\ record = hnd.entry

InvocationRaised == hnd.status = "done" /\ hnd.event = "scheduled" /\ hnd.exc # ""

FailureNotifications ==
    {i \in DOMAIN hnd.notifications : hnd.notifications[i].kind = "failure"}

\* C29 as stated: an invocation in which metrics collection or a later step
\* raises sends exactly one failure notification with the exception's text,
\* writes neither node_count nor last_scale_time, and raises the original
\* exception, whether or not the notification was delivered
C29_FailureLeavesStateUnwritten ==
    InvocationRaised
        => /\ Cardinality(FailureNotifications) = 1
           /\ \A i \in FailureNotifications : hnd.notifications[i].text = hnd.original
           /\ StateUnwritten
           /\ hnd.result = [Raises EXCEPT !.body = hnd.original]

\* C29 amended: the one failure notification carries, and the invocation
\* raises, the last exception raised; unless that is release_lock's, it is the
\* original one and neither node_count nor last_scale_time was written
C29_FailureNotifiedOnceAndRaised ==
    InvocationRaised
        => /\ Cardinality(FailureNotifications) = 1
           /\ \A i \in FailureNotifications : hnd.notifications[i].text = hnd.exc
           /\ hnd.result = [Raises EXCEPT !.body = hnd.exc]
           /\ hnd.exc # "release_lock" => (hnd.exc = hnd.original /\ StateUnwritten)
           /\ (hnd.exc = "release_lock" /\ ~StateUnwritten) => InTrace("update_state")

C29_Witness ==
    /\ InvocationRaised
    /\ hnd.exc \in {"scale_up", "scale_down"}
    /\ InTrace("release_lock")
    /\ \E i \in FailureNotifications : ~hnd.notifications[i].delivered

\* the steps of an invocation that scales, in the order of
\* lambda_handler; the name of the scaling call is the action's
StepRank(call) ==
    IF call = "acquire_lock" THEN 1
    ELSE IF call = "get_state" THEN 2
    ELSE IF call = "evaluate" THEN 3
    ELSE IF call \in {"scale_up", "scale_down"} THEN 4
    ELSE IF call = "update_state" THEN 5
    ELSE IF call = "send_notification" THEN 6
    ELSE IF call = "release_lock" THEN 7
    ELSE 0

\* the calls up to the release of the lock
UntilRelease ==
    IF InTrace("release_lock") THEN SubSeq(hnd.trace, 1, Pos("release_lock")) ELSE hnd.trace

ScalingCallMade == InTrace("scale_up") \/ InTrace("scale_down")

\* C30: an invocation that executes a scaling action makes its steps in the
\* order acquire, read state, decide, scale, write state, notify, release;
\* node_count and last_scale_time change only after the scaling call returned
\* and between the acquire and the release; a final action of 'none' leaves
\* both as they were
C30_StepsInOrder ==
    /\ (hnd.event = "scheduled" /\ ScalingCallMade)
        => /\ \A i, j \in DOMAIN UntilRelease :
                (i < j /\ StepRank(UntilRelease[i]) > 0 /\ StepRank(UntilRelease[j]) > 0)
                    => StepRank(UntilRelease[i]) < StepRank(UntilRelease[j])
           /\ \A j \in DOMAIN UntilRelease :
                \A r \in 1..(StepRank(UntilRelease[j]) - 1) :
                    (hnd.original = "" \/ r < 5)
                        => \E i \in 1..(j - 1) : StepRank(UntilRelease[i]) = r
    /\ ~StateUnwritten
        => /\ InTrace("acquire_lock") /\ ScalingCallMade /\ InTrace("update_state")
           /\ Pos("acquire_lock") < Pos(hnd.action.action)
           /\ Pos(hnd.action.action) < Pos("update_state")
           /\ InTrace("release_lock") => Pos("update_state") < Pos("release_lock")
    /\ (hnd.event = "scheduled" /\ InTrace("evaluate") /\ hnd.action.action = "none")
        => StateUnwritten

C30_Witness ==
    /\ hnd.status = "done"
    /\ hnd.result.body = "Scaling completed"
    /\ ~StateUnwritten
    /\ InTrace("release_lock")


\* ------------------------------------------------------------------------
\* Properties of scale_down
\* ------------------------------------------------------------------------
ScaleDownReturned == down.status = "returned"

\* the events of the call that concern the i-th worker, by operation
EventsOf(op, i) ==
    {p \in DOMAIN down.events : down.events[p].op = op /\ down.events[p].i = i}

DrainFailed(i) == \E p \in EventsOf("drain_node", i) : ~down.events[p].ok

\* the node object is deleted only after the terminate call of its instance,
\* and an instance whose drain failed is neither terminated nor deleted
DeleteFollowsTerminate ==
    \A i \in DOMAIN down.workers :
        /\ \A q \in EventsOf("delete_node", i) :
              \E p \in EventsOf("terminate_instances", i) : p < q
        /\ DrainFailed(i)
              => (EventsOf("terminate_instances", i) = {} /\ EventsOf("delete_node", i) = {})

Handled(k) ==
    \/ EventsOf("drain_node", down.selected[k]) # {}
    \/ EventsOf("terminate_instances", down.selected[k]) # {}

\* C32: a node whose drain was refused or timed out is schedulable again, its
\* drain reported failure, and scale_down skips that node only: it goes on to
\* the selected instances that follow
C32_FailedDrainSkipsOneNode ==
    \A k \in DOMAIN down.selected :
        DrainFailed(down.selected[k])
            => /\ down.selected[k] \notin down.cordoned
               /\ \A t \in DOMAIN down.terminated : down.terminated[t] # down.selected[k]
               /\ down.outcome = "success"
                    => \A l \in DOMAIN down.selected : l > k => Handled(l)

\* the workers the call terminated
TerminatedWorkers == {down.terminated[t] : t \in DOMAIN down.terminated}

\* C40: scale_down never terminates every running worker; a count that
\* reaches the number of running workers is cut to that number minus one, and
\* to zero on a fleet of one or none
C40_OneWorkerIsKept ==
    /\ Len(down.workers) >= 1 => Cardinality(TerminatedWorkers) < Len(down.workers)
    /\ (ScaleDownReturned /\ down.outcome = "success"
            /\ down.nodes_to_remove >= Len(down.workers))
        => Len(down.selected) = Max(0, Len(down.workers) - 1)

C40_Witness ==
    /\ ScaleDownReturned
    /\ Len(down.workers) >= 2
    /\ down.nodes_to_remove > Len(down.workers)
    /\ Cardinality(TerminatedWorkers) = Len(down.workers) - 1

\* C33: after every update_metrics_history call the stored history holds at
\* most 10 snapshots, in the order they were appended, and they are the most
\* recent ones
C33_WindowHoldsTheLatestTen ==
    /\ Len(record.metrics_history) <= MaxHistory
    /\ record.metrics_history = LastN(appended, MaxHistory)

\* ------------------------------------------------------------------------
\* Properties of the polling loops
\* ------------------------------------------------------------------------
Polling == poll.status = "polling"

PollReturned == poll.status = "returned"

\* what the loop waits for, as its latest poll saw it
ConditionSeen ==
    IF poll.loop = "ready" THEN poll.ready = poll.expected ELSE poll.remaining = 0

\* C34: each polling loop returns; it returns when a poll sees its condition
\* or when the elapsed time has reached the timeout, it never polls again
\* after its condition was seen, its polls are a fixed interval apart, and a
\* node-ready timeout makes scale_up return success with the nodes that
\* became ready
C34_PollingLoopsTerminate ==
    /\ Polling ~> PollReturned
    /\ [](/\ (PollReturned /\ poll.exit = "condition") => ConditionSeen
          /\ (PollReturned /\ poll.exit = "timeout")
                => /\ poll.elapsed >= poll.timeout
                   /\ poll.elapsed < poll.timeout + poll.interval + MaxCallTime
          /\ (Polling /\ poll.last = "listed") => ~ConditionSeen
          /\ Polling => poll.elapsed >= poll.polls * poll.interval
          /\ (PollReturned /\ poll.loop = "ready" /\ poll.exit = "timeout")
                => /\ poll.scale_up.success
                   /\ poll.scale_up.ready_nodes = poll.ready
                   /\ poll.ready \subseteq poll.expected)

C34_Witness ==
    /\ PollReturned
    /\ poll.loop = "ready"
    /\ poll.exit = "timeout"
    /\ poll.ready # {}
    /\ poll.ready # poll.expected
    /\ poll.scale_up.success

\* ------------------------------------------------------------------------
\* Properties of the placement
\* ------------------------------------------------------------------------
\* the largest difference between the counts of two subnets
Spread(counts) ==
    CHOOSE d \in 0..(MaxPerSubnet + 2 * MaxLaunch + 2) :
        /\ \E s, t \in DOMAIN counts : counts[s] - counts[t] = d
        /\ \A s, t \in DOMAIN counts : counts[s] - counts[t] <= d

\* C35: every instance of a scale_up goes to a subnet that holds the fewest
\* instances at that moment, the existing workers and those launched earlier
\* in the same scale_up counted; counts that differed by at most one before
\* the scale_up differ by at most one after it
C35_EachLaunchGoesToTheEmptiestSubnet ==
    az.status = "returned"
        => /\ \A p \in DOMAIN az.placements :
                \A t \in DOMAIN Subnets :
                    az.placements[p].held[az.placements[p].subnet]
                        <= az.placements[p].held[t]
           /\ Spread(az.before) <= 1 => Spread(az.after) <= 1

\* C36: a release_lock in the finally block of one invocation clears only the
\* lock that invocation holds: when it runs on a record whose lock is taken,
\* the lock is the one the releaser's own acquire_lock wrote, also after the
\* releaser's lock went stale and a later invocation took the lock over
C36_ReleaseClearsOwnLockOnly ==
    [][\A p \in Procs :
          (pc[p] \in {"finally", "finally_exc"} /\ pc'[p] = "done"
                /\ item.scaling_in_progress)
            => item.lock_acquired_at = current_time[p]]_vars

\* C39: one scale_up(nodes_to_add) call never starts more than nodes_to_add
\* instances in total, also when the spot launch fails after some of its
\* instances were started and the on-demand fallback runs
C39_LaunchesAtMostNodesToAdd ==
    up.status # "idle"
        => (fleet.spot + fleet.ondemand) - (up.before.spot + up.before.ondemand)
             <= up.nodes_to_add

\* C37: an executed scale-up (reactive, minimum enforcement, bootstrap on a
\* zero reading, or predictive) never asks for more nodes than max_nodes less
\* the workers the invocation counted, so the fleet never exceeds max_nodes
C37_ScaleUpStaysWithinMaxNodes ==
    (run.status = "scaled" /\ run.action.action = "scale_up")
        => run.metric_node_count + run.action.nodes <= MAX_NODES

\* update_state has written the record in this invocation
StateWritten == InTrace("update_state") /\ hnd.original # "update_state"

\* C38: the node_count that update_state writes is the node count the
\* decision was made with, plus the instances the scale_up actually started
\* or minus the instances the scale_down actually terminated; a scale_down
\* whose every drain was refused leaves node_count and last_scale_time as
\* they were
C38_NodeCountFollowsWhatWasDone ==
    /\ StateWritten
        => record.node_count =
             hnd.current_nodes + (IF hnd.action.action = "scale_up" THEN hnd.changed
                                  ELSE 0 - hnd.changed)
    /\ (InTrace("scale_down") /\ hnd.original # "scale_down" /\ hnd.changed = 0
            /\ hnd.status \in {"notify", "release", "done", "failed"})
        => StateUnwritten

====
